---- MODULE Spec2Model ----
(***************************************************************************)
(* Model of the electricity dashboard (src/src/ElectricityDashboard.tsx,   *)
(* and its single-series predecessor src/unnamed/part_000).                *)
(*                                                                         *)
(* Strings are sequences of one-character strings, so that regular         *)
(* expressions, slice, split, padStart and the comparison of keys are      *)
(* computed character by character, as the code does.  A JavaScript Date   *)
(* at 00:00:00 UTC is its day number since 1970-01-01.  Numbers are exact  *)
(* (integers, and rationals <<num, den>> for quotients).                   *)
(***************************************************************************)
EXTENDS Integers, Sequences, FiniteSets, TLC

VARIABLES
    engineLenient, \* TRUE: the engine's ISO parser accepts any day 01..31 (V8)
    dataMap,       \* useState dataMap: key -> value
    errors,        \* useState errors: sequence of messages
    msg,           \* useState msg
    fetchStatus,   \* useState fetchStatus
    loads,         \* default-CSV loads in flight: sequence of closures
    pending,       \* importCSV calls awaiting their promise (the type of the
                   \* render that made each call) and the number of
                   \* fetchLatestFromCEA calls awaiting theirs
    storage,       \* localStorage: type -> persisted object
    type,          \* props.type
    mounted,       \* the component is mounted
    fn,            \* pure-function harness: the function under test
    args,          \* pure-function harness: its arguments
    ret            \* pure-function harness: its result

vars == <<engineLenient, dataMap, errors, msg, fetchStatus, loads, pending,
          storage, type, mounted, fn, args, ret>>

compVars == <<dataMap, errors, msg, fetchStatus, loads, pending, storage, type,
              mounted>>

harnessVars == <<fn, args, ret>>

-----------------------------------------------------------------------------
(* Strings                                                                 *)

Null == <<"null">>

DigitChars == {"0", "1", "2", "3", "4", "5", "6", "7", "8", "9"}

DigitVal(c) ==
    CASE c = "0" -> 0 [] c = "1" -> 1 [] c = "2" -> 2 [] c = "3" -> 3
      [] c = "4" -> 4 [] c = "5" -> 5 [] c = "6" -> 6 [] c = "7" -> 7
      [] c = "8" -> 8 [] c = "9" -> 9

DigitChar(n) ==
    CASE n = 0 -> "0" [] n = 1 -> "1" [] n = 2 -> "2" [] n = 3 -> "3"
      [] n = 4 -> "4" [] n = 5 -> "5" [] n = 6 -> "6" [] n = 7 -> "7"
      [] n = 8 -> "8" [] n = 9 -> "9"

\* UTF-16 code unit order of the characters that occur in the model
CharCode(c) ==
    CASE c = "\t" -> 9 [] c = "\n" -> 10 [] c = "\r" -> 13
      [] c = " " -> 32 [] c = "+" -> 43 [] c = "," -> 44 [] c = "-" -> 45
      [] c = "." -> 46 [] c \in DigitChars -> 48 + DigitVal(c)
      [] c = "I" -> 73 [] c = "_" -> 95
      [] c = "a" -> 97 [] c = "d" -> 100 [] c = "e" -> 101 [] c = "g" -> 103
      [] c = "h" -> 104 [] c = "n" -> 110 [] c = "t" -> 116 [] c = "w" -> 119
      [] c = "x" -> 120
      [] OTHER -> 8212

\* a < b on strings: lexicographic by code unit
StrLess(a, b) ==
    \E i \in 1..(Len(b)) :
        /\ \A j \in 1..(i - 1) : j <= Len(a) /\ a[j] = b[j]
        /\ \/ i = Len(a) + 1
           \/ i <= Len(a) /\ CharCode(a[i]) < CharCode(b[i])

StrLeq(a, b) == a = b \/ StrLess(a, b)

\* s.slice(from, to), 0-based, end exclusive
Slice(s, from, to) ==
    LET hi == IF to < Len(s) THEN to ELSE Len(s)
    IN  IF from >= hi THEN <<>> ELSE SubSeq(s, from + 1, hi)

WhiteSpace == {" ", "\t", "\r", "\n"}

RECURSIVE TrimLeft(_)
TrimLeft(s) ==
    IF s # <<>> /\ Head(s) \in WhiteSpace THEN TrimLeft(Tail(s)) ELSE s

RECURSIVE TrimRight(_)
TrimRight(s) ==
    IF s # <<>> /\ s[Len(s)] \in WhiteSpace
    THEN TrimRight(SubSeq(s, 1, Len(s) - 1)) ELSE s

\* String.prototype.trim
Trim(s) == TrimRight(TrimLeft(s))

AllDigits(s) == \A i \in 1..Len(s) : s[i] \in DigitChars

\* Number(s) for a non-empty string of decimal digits
RECURSIVE DigitsValue(_)
DigitsValue(s) ==
    IF s = <<>> THEN 0
    ELSE 10 * DigitsValue(SubSeq(s, 1, Len(s) - 1)) + DigitVal(s[Len(s)])

\* String(n) for an integer n >= 0
RECURSIVE NatToString(_)
NatToString(n) ==
    IF n < 10 THEN <<DigitChar(n)>>
    ELSE NatToString(n \div 10) \o <<DigitChar(n % 10)>>

\* String(n) for an integer
IntToString(n) == IF n < 0 THEN <<"-">> \o NatToString(0 - n) ELSE NatToString(n)

\* s.padStart(width, "0")
RECURSIVE PadStart(_, _)
PadStart(s, width) == IF Len(s) >= width THEN s ELSE PadStart(<<"0">> \o s, width)

\* index of the first occurrence of the character c in s, 0 when absent
IndexOf(s, c) ==
    IF \E i \in 1..Len(s) : s[i] = c
    THEN CHOOSE i \in 1..Len(s) : s[i] = c /\ \A j \in 1..(i - 1) : s[j] # c
    ELSE 0

\* s.split(c) for a one-character separator
RECURSIVE Split(_, _)
Split(s, c) ==
    LET i == IndexOf(s, c)
    IN  IF i = 0 THEN <<s>>
        ELSE <<SubSeq(s, 1, i - 1)>> \o Split(SubSeq(s, i + 1, Len(s)), c)

\* s.split(/\r?\n/): the carriage return before a line feed is dropped
SplitLines(s) ==
    LET parts == Split(s, "\n")
    IN  [i \in 1..Len(parts) |->
            IF i < Len(parts) /\ parts[i] # <<>> /\ parts[i][Len(parts[i])] = "\r"
            THEN SubSeq(parts[i], 1, Len(parts[i]) - 1) ELSE parts[i]]

\* parts.join(c)
RECURSIVE Join(_, _)
Join(parts, c) ==
    IF parts = <<>> THEN <<>>
    ELSE IF Len(parts) = 1 THEN parts[1]
    ELSE parts[1] \o <<c>> \o Join(Tail(parts), c)

\* s.includes(sub)
Includes(s, sub) ==
    \E i \in 0..(Len(s) - Len(sub)) : SubSeq(s, i + 1, i + Len(sub)) = sub

LowerChar(c) ==
    CASE c = "D" -> "d" [] c = "A" -> "a" [] c = "T" -> "t" [] c = "E" -> "e"
      [] c = "G" -> "g" [] c = "W" -> "w" [] c = "H" -> "h"
      [] OTHER -> c

\* s.toLowerCase()
ToLower(s) == [i \in 1..Len(s) |-> LowerChar(s[i])]

\* s.replace(/,/g, "")
RECURSIVE RemoveCommas(_)
RemoveCommas(s) ==
    IF s = <<>> THEN <<>>
    ELSE IF Head(s) = "," THEN RemoveCommas(Tail(s))
    ELSE <<Head(s)>> \o RemoveCommas(Tail(s))

-----------------------------------------------------------------------------
(* JavaScript numbers: a finite number, NaN, or an infinity                *)

JNum(n) == [k |-> "num", v |-> n]
JNaN == [k |-> "NaN", v |-> 0]
JInf == [k |-> "Infinity", v |-> 1]
JNegInf == [k |-> "Infinity", v |-> -1]

InfinityText == <<"I", "n", "f", "i", "n", "i", "t", "y">>

\* Number(s) for a string s: StringToNumber on integer literals, Infinity
\* and strings that are no numeric literal
StringToNumber(s) ==
    LET t == Trim(s) IN
    IF t = <<>> THEN JNum(0)
    ELSE IF AllDigits(t) THEN JNum(DigitsValue(t))
    ELSE IF Len(t) > 1 /\ t[1] = "-" /\ AllDigits(Tail(t))
         THEN JNum(0 - DigitsValue(Tail(t)))
    ELSE IF Len(t) > 1 /\ t[1] = "+" /\ AllDigits(Tail(t))
         THEN JNum(DigitsValue(Tail(t)))
    ELSE IF t = InfinityText \/ t = <<"+">> \o InfinityText THEN JInf
    ELSE IF t = <<"-">> \o InfinityText THEN JNegInf
    ELSE JNaN

\* String(x) for a number x
NumberToString(x) ==
    IF x.k = "num" THEN IntToString(x.v)
    ELSE IF x.k = "NaN" THEN <<"N", "a", "N">>
    ELSE IF x.v < 0 THEN <<"-">> \o InfinityText ELSE InfinityText

NumberIsFinite(x) == x.k = "num"

\* mutant: the test v < 0 is left out
LessThanZero_Never(x) == FALSE

\* x < 0 (false for NaN)
LessThanZero(x) == (x.k = "num" /\ x.v < 0) \/ (x.k = "Infinity" /\ x.v < 0)

\* x >= 0 (false for NaN)
AtLeastZero(x) == (x.k = "num" /\ x.v >= 0) \/ (x.k = "Infinity" /\ x.v > 0)

\* /^\d{4}-\d{2}-\d{2}$/.test(s)
MatchesISO(s) ==
    /\ Len(s) = 10
    /\ AllDigits(SubSeq(s, 1, 4)) /\ s[5] = "-"
    /\ AllDigits(SubSeq(s, 6, 7)) /\ s[8] = "-"
    /\ AllDigits(SubSeq(s, 9, 10))

\* /^\d{2}-\d{2}-\d{4}$/.test(s)
MatchesDMY(s) ==
    /\ Len(s) = 10
    /\ AllDigits(SubSeq(s, 1, 2)) /\ s[3] = "-"
    /\ AllDigits(SubSeq(s, 4, 5)) /\ s[6] = "-"
    /\ AllDigits(SubSeq(s, 7, 10))

-----------------------------------------------------------------------------
(* ECMAScript Date, restricted to times at 00:00:00 UTC (day numbers)      *)

IsLeap(y) == (y % 4 = 0 /\ y % 100 # 0) \/ y % 400 = 0

DaysInMonth(y, m) ==
    CASE m \in {1, 3, 5, 7, 8, 10, 12} -> 31
      [] m \in {4, 6, 9, 11} -> 30
      [] m = 2 -> IF IsLeap(y) THEN 29 ELSE 28

\* day number of year y, January 1 (ECMAScript DayFromYear)
DayFromYear(y) ==
    365 * (y - 1970) + ((y - 1969) \div 4) - ((y - 1901) \div 100)
        + ((y - 1601) \div 400)

\* days before month m (1..12) within year y
RECURSIVE DaysBeforeMonth(_, _)
DaysBeforeMonth(y, m) ==
    IF m = 1 THEN 0 ELSE DaysBeforeMonth(y, m - 1) + DaysInMonth(y, m - 1)

\* ECMAScript MakeDay(year, month, date): month is 0-based and may be any
\* integer, date may be any integer
MakeDay(year, month, date) ==
    LET ym == year + (month \div 12)
        mn == month % 12
    IN  DayFromYear(ym) + DaysBeforeMonth(ym, mn + 1) + date - 1

\* Date.UTC(year, month, date): years 0..99 mean 1900..1999
DateUTC(year, month, date) ==
    LET yr == IF 0 <= year /\ year <= 99 THEN 1900 + year ELSE year
    IN  MakeDay(yr, month, date)

\* ECMAScript YearFromTime
RECURSIVE YearFrom(_, _)
YearFrom(t, y) ==
    IF DayFromYear(y) > t THEN YearFrom(t, y - 1)
    ELSE IF DayFromYear(y + 1) <= t THEN YearFrom(t, y + 1)
    ELSE y

getUTCFullYear(t) == YearFrom(t, 1970 + (t \div 365))

RECURSIVE MonthFrom(_, _, _)
MonthFrom(y, dayInYear, m) ==
    IF dayInYear < DaysBeforeMonth(y, m) + DaysInMonth(y, m) THEN m
    ELSE MonthFrom(y, dayInYear, m + 1)

\* 1-based month of the day number t
MonthOf(t) ==
    LET y == getUTCFullYear(t) IN MonthFrom(y, t - DayFromYear(y), 1)

\* getUTCMonth is 0-based
getUTCMonth(t) == MonthOf(t) - 1

getUTCDate(t) ==
    LET y == getUTCFullYear(t)
    IN  t - DayFromYear(y) - DaysBeforeMonth(y, MonthOf(t)) + 1

\* 0 = Sunday; 1970-01-01 was a Thursday
getUTCDay(t) == (t + 4) % 7

\* d.toISOString().slice(0, 10): years outside 0..9999 are written with a
\* sign and six digits, so the slice cuts the day off
toISOString10(t) ==
    LET y == getUTCFullYear(t)
        mm == PadStart(NatToString(MonthOf(t)), 2)
        dd == PadStart(NatToString(getUTCDate(t)), 2)
    IN  IF 0 <= y /\ y <= 9999
        THEN PadStart(NatToString(y), 4) \o <<"-">> \o mm \o <<"-">> \o dd
        ELSE Slice((IF y < 0 THEN <<"-">> ELSE <<"+">>)
                   \o PadStart(NatToString(IF y < 0 THEN 0 - y ELSE y), 6)
                   \o <<"-">> \o mm \o <<"-">> \o dd, 0, 10)

\* new Date(s + "T00:00:00Z") for s of the shape YYYY-MM-DD: <<t>> for the
\* day number t, or << >> for an invalid date (time value NaN).  Month 01..12 and day 01..31 are required by
\* every engine; a day beyond the month's length is rejected by engines
\* that validate the date (SpiderMonkey, JavaScriptCore) and rolled over
\* into the next month by V8: lenient says which engine runs the code.
DateFromISO(lenient, s) ==
    LET y == DigitsValue(SubSeq(s, 1, 4))
        m == DigitsValue(SubSeq(s, 6, 7))
        d == DigitsValue(SubSeq(s, 9, 10))
    IN  IF m < 1 \/ m > 12 \/ d < 1 \/ d > 31 THEN <<>>
        ELSE IF d > DaysInMonth(y, m) /\ ~lenient THEN <<>>
        ELSE <<MakeDay(y, m - 1, d)>>

-----------------------------------------------------------------------------
(* Date helpers                                                            *)

parseISOKey(lenient, s) ==
    IF ~MatchesISO(s) THEN Null
    ELSE IF Len(DateFromISO(lenient, s)) = 0 THEN Null ELSE s

\* a value that is not a string (typeof s !== "string")
NotAString == <<"undefined">>

parseInputDate(lenient, s) ==
    IF s = NotAString THEN Null
    ELSE
      LET t == Trim(s) IN
      IF MatchesDMY(t)
      THEN LET dd == DigitsValue(SubSeq(t, 1, 2))
               mm == DigitsValue(SubSeq(t, 4, 5))
               yyyy == DigitsValue(SubSeq(t, 7, 10))
               d == DateUTC(yyyy, mm - 1, dd)
           IN  IF \/ getUTCFullYear(d) # yyyy
                  \/ getUTCMonth(d) # mm - 1
                  \/ getUTCDate(d) # dd
               THEN Null
               ELSE NatToString(yyyy) \o <<"-">> \o PadStart(NatToString(mm), 2)
                    \o <<"-">> \o PadStart(NatToString(dd), 2)
      ELSE IF MatchesISO(t) THEN parseISOKey(lenient, t)
      ELSE Null

\* "EMDASH" is the one-character string U+2014
formatDDMMYYYY(iso) ==
    IF iso = <<>> \/ iso = NotAString \/ ~MatchesISO(iso) THEN <<"EMDASH">>
    ELSE SubSeq(iso, 9, 10) \o <<"-">> \o SubSeq(iso, 6, 7) \o <<"-">>
         \o SubSeq(iso, 1, 4)

-----------------------------------------------------------------------------
(* Aggregation + growth                                                    *)

\* the absent number (null / undefined) among exact numbers <<num, den>>
NullNum == <<>>

IsNullNum(x) == Len(x) = 0

RECURSIVE GCD(_, _)
GCD(a, b) == IF b = 0 THEN a ELSE GCD(b, a % b)

Abs(n) == IF n < 0 THEN 0 - n ELSE n

\* the exact number n / d, d # 0, in lowest terms with a positive denominator
Rat(n, d) ==
    LET g == GCD(Abs(n), Abs(d))
        sgn == IF d < 0 THEN -1 ELSE 1
    IN  <<(sgn * n) \div g, (sgn * d) \div g>>

RInt(n) == <<n, 1>>

RSub(a, b) == Rat(a[1] * b[2] - b[1] * a[2], a[2] * b[2])

RAdd(a, b) == Rat(a[1] * b[2] + b[1] * a[2], a[2] * b[2])

RMul(a, b) == Rat(a[1] * b[1], a[2] * b[2])

RQuot(a, b) == Rat(a[1] * b[2], a[2] * b[1])

safeDiv(n, d) ==
    IF IsNullNum(d) \/ d[1] = 0 THEN NullNum
    ELSE RQuot(n, d)

\* mutant: growth against the current value instead of the previous one
growthPct_DivByCurr(curr, prev) ==
    LET r == IF IsNullNum(prev) THEN NullNum
             ELSE safeDiv(RSub(curr, prev), curr)
    IN  IF IsNullNum(r) THEN NullNum ELSE RMul(r, RInt(100))

growthPct(curr, prev) ==
    LET r == safeDiv(RSub(curr, prev), prev)
    IN  IF IsNullNum(r) THEN NullNum ELSE RMul(r, RInt(100))

sortISO(a, b) == IF StrLess(a, b) THEN -1 ELSE IF StrLess(b, a) THEN 1 ELSE 0

\* map.set(k, v) on a copy of m
MapSet(m, k, v) == [x \in (DOMAIN m) \cup {k} |-> IF x = k THEN v ELSE m[x]]

\* map.delete(k) on a copy of m
MapDelete(m, k) == [x \in (DOMAIN m) \ {k} |-> m[x]]

\* mutant: a record does not overwrite a date already present
RECURSIVE SetAll_FirstWins(_, _)
SetAll_FirstWins(next, incoming) ==
    IF incoming = <<>> THEN next
    ELSE SetAll_FirstWins(
            IF Head(incoming).date \in DOMAIN next THEN next
            ELSE MapSet(next, Head(incoming).date, Head(incoming).value),
            Tail(incoming))

RECURSIVE SetAll(_, _)
SetAll(next, incoming) ==
    IF incoming = <<>> THEN next
    ELSE SetAll(MapSet(next, Head(incoming).date, Head(incoming).value),
                Tail(incoming))

\* the returned map: a copy of existingMap with every incoming record set
mergeRecords(existingMap, incoming) == SetAll(existingMap, incoming)

\* what the call leaves in the caller's existingMap: next is a copy
\* (new Map(existingMap)), so the argument is not written
existingAfterMerge(existingMap, incoming) == existingMap

\* the text DD-MM-YYYY / YYYY-MM-DD of three numbers (test inputs, sample)
DMYString(dd, mm, yyyy) ==
    PadStart(NatToString(dd), 2) \o <<"-">> \o PadStart(NatToString(mm), 2)
        \o <<"-">> \o PadStart(NatToString(yyyy), 4)

ISOString(yyyy, mm, dd) ==
    PadStart(NatToString(yyyy), 4) \o <<"-">> \o PadStart(NatToString(mm), 2)
        \o <<"-">> \o PadStart(NatToString(dd), 2)

-----------------------------------------------------------------------------
(* CSV helpers                                                             *)

\* seq.filter(pred) and seq.map(f) are SelectSeq and function constructors

RowError(kind, rowNumber, raw) == [kind |-> kind, row |-> rowNumber, raw |-> raw]

\* the lines of the text, trimmed, blank ones dropped
csvLines(text) ==
    LET parts == SplitLines(text)
        trimmed == [i \in 1..Len(parts) |-> Trim(parts[i])]
    IN  SelectSeq(trimmed, LAMBDA l : l # <<>>)

\* the column lists of the lines that have at least two columns
csvRowsOf(lines) ==
    LET cols == [i \in 1..Len(lines) |->
                    LET c == Split(lines[i], ",")
                    IN  [j \in 1..Len(c) |-> Trim(c[j])]]
    IN  SelectSeq(cols, LAMBDA c : Len(c) >= 2)

\* the first row is a header
csvIsHeader(row, valueColumnKey) ==
    LET h0 == ToLower(row[1])
        h1 == ToLower(row[2])
        key == ToLower(valueColumnKey)
    IN  Includes(h0, <<"d", "a", "t", "e">>)
            /\ (Includes(h1, key) \/ Includes(h1, <<"g", "w", "h">>))

\* rows after the optional header is shifted off
csvDataRows(text, valueColumnKey) ==
    LET rows == csvRowsOf(csvLines(text))
    IN  IF rows # <<>> /\ csvIsHeader(rows[1], valueColumnKey)
        THEN Tail(rows) ELSE rows

\* mutant: the loop ends at the first rejected row
RECURSIVE csvLoop_StopAtBadRow(_, _, _, _, _)
csvLoop_StopAtBadRow(lenient, rows, i, parsed, errs) ==
    IF i > Len(rows) THEN [parsed |-> parsed, errors |-> errs]
    ELSE
      LET date == parseInputDate(lenient, rows[i][1])
          v == StringToNumber(RemoveCommas(rows[i][2]))
      IN  IF date = Null
          THEN [parsed |-> parsed,
                errors |-> Append(errs, RowError("invalid date", i, rows[i][1]))]
          ELSE IF ~NumberIsFinite(v) \/ LessThanZero(v)
          THEN [parsed |-> parsed,
                errors |-> Append(errs, RowError("invalid value", i, rows[i][2]))]
          ELSE csvLoop_StopAtBadRow(lenient, rows, i + 1,
                                    Append(parsed, [date |-> date, value |-> v]),
                                    errs)

\* the loop over rows i .. Len(rows), appending to parsed and errors
RECURSIVE csvLoop(_, _, _, _, _)
csvLoop(lenient, rows, i, parsed, errs) ==
    IF i > Len(rows) THEN [parsed |-> parsed, errors |-> errs]
    ELSE
      LET dRaw == rows[i][1]
          vRaw == rows[i][2]
          date == parseInputDate(lenient, dRaw)
          v == StringToNumber(RemoveCommas(vRaw))
      IN  IF date = Null
          THEN csvLoop(lenient, rows, i + 1, parsed,
                       Append(errs, RowError("invalid date", i, dRaw)))
          ELSE IF ~NumberIsFinite(v) \/ LessThanZero(v)
          THEN csvLoop(lenient, rows, i + 1, parsed,
                       Append(errs, RowError("invalid value", i, vRaw)))
          ELSE csvLoop(lenient, rows, i + 1, Append(parsed, [date |-> date, value |-> v]),
                       errs)

csvParse(lenient, text, valueColumnKey) ==
    csvLoop(lenient, csvDataRows(text, valueColumnKey), 1, <<>>, <<>>)

HeaderDate == <<"d", "a", "t", "e">>

sampleCSV(valueColumnKey) ==
    Join(<< HeaderDate \o <<",">> \o valueColumnKey,
            DMYString(18, 12, 2025) \o <<",", "4", "1", "4", "0">>,
            DMYString(19, 12, 2025) \o <<",", "4", "2", "1", "5">>,
            DMYString(20, 12, 2025) \o <<",", "4", "1", "9", "8">> >>, "\n")

\* the keys of a store in ascending order of sortISO
RECURSIVE SortKeys(_)
SortKeys(S) ==
    IF S = {} THEN <<>>
    ELSE LET first == CHOOSE x \in S : \A y \in S : sortISO(x, y) <= 0
         IN  <<first>> \o SortKeys(S \ {first})

\* useMemo sortedDaily: the store's entries as records, ascending by date
sortedDailyOf(map) ==
    LET keys == SortKeys(DOMAIN map)
    IN  [i \in 1..Len(keys) |-> [date |-> keys[i], value |-> map[keys[i]]]]

\* the text exportCSV hands to downloadCSV
exportCSVText(map, valueColumnKey) ==
    LET sd == sortedDailyOf(map)
        header == HeaderDate \o <<",">> \o valueColumnKey
        lines == [i \in 1..Len(sd) |->
                    formatDDMMYYYY(sd[i].date) \o <<",">>
                        \o NumberToString(sd[i].value)]
    IN  Join(<<header>> \o lines, "\n")

-----------------------------------------------------------------------------
(* The component's state when only a pure function is exercised            *)

EmptyMap == [k \in {} |-> 0]

NotCalled == [done |-> FALSE]

Returned(v) == [done |-> TRUE, val |-> v]

ComponentIdle ==
    /\ dataMap = EmptyMap
    /\ errors = <<>>
    /\ msg = Null
    /\ fetchStatus = Null
    /\ loads = <<>>
    /\ pending = [imports |-> <<>>, fetches |-> 0]
    /\ storage = [t \in {"generation", "demand"} |-> [item |-> "absent", obj |-> EmptyMap]]
    /\ type = "generation"
    /\ mounted = TRUE

-----------------------------------------------------------------------------
(* Specification SpecDates: parseInputDate and parseISOKey on bounded      *)
(* inputs                                                                  *)

MaxDayField == 32
MaxMonthField == 13

InputYears == {50, 500, 1900, 2023, 2024}

DMYInputs ==
    {DMYString(dd, mm, yyyy) :
        dd \in 0..MaxDayField, mm \in 0..MaxMonthField, yyyy \in InputYears}

ISOInputs ==
    {ISOString(yyyy, mm, dd) :
        dd \in 0..MaxDayField, mm \in 0..MaxMonthField, yyyy \in InputYears}

OtherInputs ==
    { NotAString, <<>>, <<"x">>,
      <<"1", "5", "-", "6", "-", "2", "0", "2", "4">>,
      <<"1", "5", "/", "0", "6", "/", "2", "0", "2", "4">>,
      <<"2", "0", "2", "4", "0", "6", "1", "5">>,
      <<"1", "5", "-", "0", "6", "-", "2", "4">>,
      <<"d", "a", "t", "e">> }

SpacedInputs ==
    { <<" ">> \o DMYString(15, 6, 2024), DMYString(31, 2, 2024) \o <<" ">>,
      <<" ">> \o ISOString(2024, 6, 15) \o <<" ", " ">> }

DateInputs == DMYInputs \cup ISOInputs \cup OtherInputs \cup SpacedInputs

InitDates ==
    /\ engineLenient \in BOOLEAN
    /\ ComponentIdle
    /\ fn \in {"parseInputDate", "parseISOKey"}
    /\ args \in DateInputs
    /\ ret = NotCalled

ApplyParseInputDate ==
    /\ fn = "parseInputDate" /\ ~ret.done
    /\ ret' = Returned(parseInputDate(engineLenient, args))
    /\ UNCHANGED <<engineLenient, compVars, fn, args>>

\* parseISOKey is only called with strings (object keys, trimmed input)
ApplyParseISOKey ==
    /\ fn = "parseISOKey" /\ ~ret.done /\ args # NotAString
    /\ ret' = Returned(parseISOKey(engineLenient, args))
    /\ UNCHANGED <<engineLenient, compVars, fn, args>>

NextDates == ApplyParseInputDate \/ ApplyParseISOKey

SpecDates == InitDates /\ [][NextDates]_vars

\* day dd of month mm of year yyyy exists in the Gregorian calendar
IsRealDate(yyyy, mm, dd) ==
    /\ 1 <= mm /\ mm <= 12
    /\ 1 <= dd /\ dd <= DaysInMonth(yyyy, mm)

\* the key YYYY-MM-DD written with the characters of a DD-MM-YYYY string
KeyOfDMY(s) ==
    SubSeq(s, 7, 10) \o <<"-">> \o SubSeq(s, 4, 5) \o <<"-">> \o SubSeq(s, 1, 2)

\* C4: for every string of the shape DD-MM-YYYY parseInputDate returns the
\* key YYYY-MM-DD when (day, month, year) is a real Gregorian date and null
\* otherwise; for non-strings and every shape that is neither DD-MM-YYYY nor
\* YYYY-MM-DD it returns null.
C4_ParseInputDateContract ==
    (fn = "parseInputDate" /\ ret.done) =>
        IF args = NotAString THEN ret.val = Null
        ELSE IF MatchesDMY(args)
        THEN ret.val =
               IF IsRealDate(DigitsValue(SubSeq(args, 7, 10)),
                             DigitsValue(SubSeq(args, 4, 5)),
                             DigitsValue(SubSeq(args, 1, 2)))
               THEN KeyOfDMY(args) ELSE Null
        ELSE (~MatchesDMY(Trim(args)) /\ ~MatchesISO(Trim(args)))
                => ret.val = Null

-----------------------------------------------------------------------------
(* Specification SpecGrowth: growthPct on bounded exact numbers            *)

MaxNumerator == 3
MaxDenominator == 2

GrowthNumbers ==
    {Rat(n, d) : n \in (0 - MaxNumerator)..MaxNumerator, d \in 1..MaxDenominator}

InitGrowth ==
    /\ engineLenient = TRUE
    /\ ComponentIdle
    /\ fn = "growthPct"
    /\ args \in [curr : GrowthNumbers, prev : GrowthNumbers \cup {NullNum}]
    /\ ret = NotCalled

ApplyGrowthPct ==
    /\ fn = "growthPct" /\ ~ret.done
    /\ ret' = Returned(growthPct(args.curr, args.prev))
    /\ UNCHANGED <<engineLenient, compVars, fn, args>>

NextGrowth == ApplyGrowthPct

SpecGrowth == InitGrowth /\ [][NextGrowth]_vars

\* C6: growthPct(curr, prev) is null exactly when prev is null or 0, and is
\* otherwise the number r with r * prev = (curr - prev) * 100, unclamped;
\* growthPct(x, x) = 0 for nonzero x, growthPct(0, p) = -100 for nonzero p.
C6_GrowthPctContract ==
    (fn = "growthPct" /\ ret.done) =>
        LET c == args.curr
            p == args.prev
            r == ret.val
        IN  IF IsNullNum(p) \/ p[1] = 0 THEN IsNullNum(r)
            ELSE /\ ~IsNullNum(r)
                 /\ r[2] > 0
                 /\ r[1] * c[2] * p[1] = 100 * r[2] * (c[1] * p[2] - p[1] * c[2])
                 /\ (c = p => r = RInt(0))
                 /\ (c[1] = 0 => r = RInt(-100))

\* growthPct has returned a percentage beyond -100..100, a zero and a null
C6_Witness ==
    /\ fn = "growthPct" /\ ret.done
    /\ ~IsNullNum(ret.val)
    /\ ret.val[1] > 100 * ret.val[2]
    /\ args.curr # args.prev

-----------------------------------------------------------------------------
(* Specification SpecMerge: mergeRecords on bounded stores and records     *)

MaxIncoming == 3

MergeKeys == {ISOString(2024, 6, 14), ISOString(2024, 6, 15), ISOString(2023, 6, 15)}

StoreValues == {JNum(1), JNum(2)}

IncomingValues == {JNum(2), JNum(3)}

\* the maps from a subset of keys to values
MapsOver(keys, values) == UNION {[d -> values] : d \in SUBSET keys}

\* the sequences over S of length at most n
SeqsUpTo(S, n) == UNION {[1..m -> S] : m \in 0..n}

InitMerge ==
    /\ engineLenient = TRUE
    /\ ComponentIdle
    /\ fn = "mergeRecords"
    /\ args \in [existingMap : MapsOver(MergeKeys, StoreValues),
                 incoming : SeqsUpTo([date : MergeKeys, value : IncomingValues],
                                     MaxIncoming)]
    /\ ret = NotCalled

ApplyMergeRecords ==
    /\ fn = "mergeRecords" /\ ~ret.done
    /\ ret' = Returned([next |-> mergeRecords(args.existingMap, args.incoming),
                        existingMap |->
                            existingAfterMerge(args.existingMap, args.incoming)])
    /\ UNCHANGED <<engineLenient, compVars, fn, args>>

NextMerge == ApplyMergeRecords

SpecMerge == InitMerge /\ [][NextMerge]_vars

\* C1: mergeRecords(S, R) maps each date of R to the value of its last
\* occurrence in R, keeps the value of S for each date of S not in R, has no
\* other key, and leaves S as it was.
C1_MergeLastWriteWins ==
    (fn = "mergeRecords" /\ ret.done) =>
        LET S == args.existingMap
            R == args.incoming
            next == ret.val.next
            datesOfR == {R[i].date : i \in 1..Len(R)}
        IN  /\ DOMAIN next = (DOMAIN S) \cup datesOfR
            /\ \A i \in 1..Len(R) :
                  (\A j \in (i + 1)..Len(R) : R[j].date # R[i].date)
                      => next[R[i].date] = R[i].value
            /\ \A k \in (DOMAIN S) \ datesOfR : next[k] = S[k]
            /\ ret.val.existingMap = S

\* a merge where a date occurs twice in R with different values and is also
\* in S, and another date of S is not in R
C1_Witness ==
    /\ fn = "mergeRecords" /\ ret.done
    /\ \E i, j \in 1..Len(args.incoming) :
          /\ i < j
          /\ args.incoming[i].date = args.incoming[j].date
          /\ args.incoming[i].value # args.incoming[j].value
          /\ args.incoming[i].date \in DOMAIN args.existingMap
          /\ args.existingMap[args.incoming[i].date] # args.incoming[j].value
    /\ \E k \in DOMAIN args.existingMap :
          \A i \in 1..Len(args.incoming) : args.incoming[i].date # k

-----------------------------------------------------------------------------
(* Specification SpecCsv: csvParse on texts of at most MaxLines lines      *)

MaxLines == 5

GenerationKey ==
    <<"g", "e", "n", "e", "r", "a", "t", "i", "o", "n", "_", "g", "w", "h">>

\* the lines a text is made of, each with what it is
CsvLineChoices ==
    { [kind |-> "header",
       text |-> <<"D", "a", "t", "e", ",">> \o GenerationKey \o <<"\r">>],
      [kind |-> "valid", text |-> DMYString(15, 6, 2024) \o <<",", "1">>,
       date |-> ISOString(2024, 6, 15), value |-> JNum(1)],
      [kind |-> "valid",
       text |-> <<" ">> \o DMYString(14, 6, 2024) \o <<" ", ",", " ", "2", ",", "x">>,
       date |-> ISOString(2024, 6, 14), value |-> JNum(2)],
      [kind |-> "bad date", text |-> DMYString(31, 2, 2024) \o <<",", "1">>],
      [kind |-> "bad value", text |-> DMYString(15, 6, 2024) \o <<",", "-", "1">>],
      [kind |-> "blank", text |-> <<" ">>],
      [kind |-> "one column", text |-> <<"x">>] }

CsvTextOf(lines) == Join([i \in 1..Len(lines) |-> lines[i].text], "\n")

InitCsv ==
    /\ engineLenient = TRUE
    /\ ComponentIdle
    /\ fn = "csvParse"
    /\ \E lines \in SeqsUpTo(CsvLineChoices, MaxLines) :
          args = [lines |-> lines, text |-> CsvTextOf(lines),
                  valueColumnKey |-> GenerationKey]
    /\ ret = NotCalled

ApplyCsvParse ==
    /\ fn = "csvParse" /\ ~ret.done
    /\ ret' = Returned(csvParse(engineLenient, args.text, args.valueColumnKey))
    /\ UNCHANGED <<engineLenient, compVars, fn, args>>

NextCsv == ApplyCsvParse

SpecCsv == InitCsv /\ [][NextCsv]_vars

\* the lines that are rows: not blank, at least two columns
RowLines(lines) ==
    SelectSeq(lines, LAMBDA l : l.kind \notin {"blank", "one column"})

\* the data rows: the rows without a header in first position
DataLines(lines) ==
    LET rows == RowLines(lines)
    IN  IF rows # <<>> /\ rows[1].kind = "header" THEN Tail(rows) ELSE rows

\* C7: csvParse never stops at a bad row: every data row gives exactly one
\* record (its date parses and its value is finite and >= 0) or exactly one
\* error, so records + errors = data rows, and both lists keep the rows'
\* relative order.
C7_CsvParseEveryRow ==
    (fn = "csvParse" /\ ret.done) =>
        LET data == DataLines(args.lines)
            good == SelectSeq(data, LAMBDA l : l.kind = "valid")
            bad == SelectSeq(data, LAMBDA l : l.kind # "valid")
            parsed == ret.val.parsed
            errs == ret.val.errors
        IN  /\ Len(parsed) + Len(errs) = Len(data)
            /\ Len(parsed) = Len(good)
            /\ \A i \in 1..Len(good) :
                  parsed[i] = [date |-> good[i].date, value |-> good[i].value]
            /\ Len(errs) = Len(bad)
            /\ \A i \in 1..Len(bad) :
                  errs[i].kind = IF bad[i].kind = "bad value"
                                 THEN "invalid value" ELSE "invalid date"

\* three valid rows and two malformed ones (a bad date, then a negative
\* value, a valid row after them) have given 3 records and 2 errors
C7_Witness ==
    /\ fn = "csvParse" /\ ret.done
    /\ Len(args.lines) = 5
    /\ {args.lines[i].kind : i \in 1..5} = {"valid", "bad date", "bad value"}
    /\ args.lines[5].kind = "valid"
    /\ Len(ret.val.parsed) = 3
    /\ Len(ret.val.errors) = 2

-----------------------------------------------------------------------------
(* Specification SpecExport: exportCSV's text read back by csvParse and    *)
(* merged into an empty store                                              *)

MaxExportValue == 12

\* keys of real dates, each accepted by parseInputDate in its ISO form
ExportKeys ==
    { ISOString(2024, 6, 14), ISOString(2024, 2, 29), ISOString(2023, 12, 31),
      ISOString(50, 6, 15), ISOString(500, 6, 15) }

ExportValues == {JNum(0), JNum(1), JNum(MaxExportValue)}

InitExport ==
    /\ engineLenient \in BOOLEAN
    /\ ComponentIdle
    /\ fn = "exportCSV"
    /\ \E m \in MapsOver(ExportKeys, ExportValues) :
          args = [dataMap |-> m, valueColumnKey |-> GenerationKey]
    /\ ret = NotCalled

ApplyExportImport ==
    /\ fn = "exportCSV" /\ ~ret.done
    /\ LET text == exportCSVText(args.dataMap, args.valueColumnKey)
           res == csvParse(engineLenient, text, args.valueColumnKey)
       IN  ret' = Returned([text |-> text, errors |-> res.errors,
                            merged |-> mergeRecords(EmptyMap, res.parsed)])
    /\ UNCHANGED <<engineLenient, compVars, fn, args>>

NextExport == ApplyExportImport

SpecExport == InitExport /\ [][NextExport]_vars

\* C8: for every store of valid records, the exported text parsed by
\* csvParse and merged into an empty store gives the same (date, value)
\* pairs, and no error is reported.
C8_ExportImportRoundTrip ==
    (fn = "exportCSV" /\ ret.done) =>
        /\ ret.val.merged = args.dataMap
        /\ ret.val.errors = <<>>

\* the round trip of the stores whose years have four significant digits
RoundTripFromYear1000 ==
    (/\ fn = "exportCSV" /\ ret.done
     /\ \A k \in DOMAIN args.dataMap : DigitsValue(SubSeq(k, 1, 4)) >= 1000)
        => /\ ret.val.merged = args.dataMap
           /\ ret.val.errors = <<>>

-----------------------------------------------------------------------------
(* The component ElectricityDashboard                                      *)

\* JSON values: a number, a string, null, or a missing property
JsonNumber(x) == [j |-> "number", n |-> x, s |-> <<>>]
JsonString(t) == [j |-> "string", n |-> JNaN, s |-> t]
JsonNull == [j |-> "null", n |-> JNaN, s |-> <<>>]
JsonUndefined == [j |-> "undefined", n |-> JNaN, s |-> <<>>]

\* Number(v) of a JSON value
ToNumber(v) ==
    IF v.j = "number" THEN v.n
    ELSE IF v.j = "string" THEN StringToNumber(v.s)
    ELSE IF v.j = "null" THEN JNum(0)
    ELSE JNaN

\* a localStorage item: absent, a text JSON.parse rejects, or an object
ItemAbsent == [item |-> "absent", obj |-> EmptyMap]
ItemUnparseable == [item |-> "unparseable", obj |-> EmptyMap]
ItemObject(o) == [item |-> "object", obj |-> o]

\* the useState initializer of dataMap
RECURSIVE restoreEntries(_, _, _, _)
restoreEntries(lenient, obj, keys, m) ==
    IF keys = {} THEN m
    ELSE LET k == CHOOSE x \in keys : TRUE
             d == parseISOKey(lenient, k)
             n == ToNumber(obj[k])
         IN  restoreEntries(lenient, obj, keys \ {k},
                IF d # Null /\ NumberIsFinite(n) /\ AtLeastZero(n)
                THEN MapSet(m, d, n) ELSE m)

initialDataMap(lenient, raw) ==
    IF raw.item # "object" THEN EmptyMap
    ELSE restoreEntries(lenient, raw.obj, DOMAIN raw.obj, EmptyMap)

\* the persist effect: JSON.stringify(Object.fromEntries(dataMap.entries()))
\* (JSON.stringify writes a non-finite number as null)
persisted(map) ==
    ItemObject([k \in DOMAIN map |->
                    IF NumberIsFinite(map[k]) THEN JsonNumber(map[k]) ELSE JsonNull])

\* messages; the text of a message is its kind, the row and raw text are
\* the parts a template fills in
Message(kind) == RowError(kind, 0, <<>>)

\* errs.slice(0, 12)
MaxShownErrors == 12

FirstErrors(errs) ==
    IF Len(errs) <= MaxShownErrors THEN errs ELSE SubSeq(errs, 1, MaxShownErrors)

Types == {"generation", "demand"}

\* props.valueColumnKey of a dashboard of the given type
valueColumnKeyOf(t) ==
    IF t = "generation" THEN GenerationKey
    ELSE <<"d", "e", "m", "a", "n", "d", "_", "g", "w", "h">>

-----------------------------------------------------------------------------
(* What the user, the files, the network and localStorage hand to the      *)
(* component                                                                *)

MaxPendingImports == 1
MaxPendingFetches == 1

Text(lines) == Join(lines, "\n")

\* a file.text() or a fetch of the default CSV that rejects
Unreadable == <<"unreadable">>

\* a fetch that rejects, answers with an error status, or has no JSON body
HttpFailure == [ok |-> FALSE, date |-> NotAString, total_mu |-> JsonUndefined]

JsonBody(date, total) == [ok |-> TRUE, date |-> date, total_mu |-> total]

\* what the date field may hold when Add/Update is pressed
DateTexts ==
    { DMYString(15, 6, 2024), ISOString(2024, 2, 30), DMYString(15, 6, 500),
      DMYString(31, 2, 2024) }

\* what the value field may hold
ValueTexts == { <<"1">>, <<"-", "1">>, <<"x">> }

\* the texts of the files and of the default CSV
CsvTexts ==
    { Text(<< HeaderDate \o <<",">> \o GenerationKey,
              DMYString(15, 6, 2024) \o <<",", "1">>,
              DMYString(15, 6, 2024) \o <<",", "2">> >>),
      Text(<< DMYString(14, 6, 2024) \o <<",", "2">>,
              DMYString(31, 2, 2024) \o <<",", "1">> >>),
      Text(<< DMYString(14, 6, 2024) \o <<",", "-", "1">> >>),
      <<>> }

\* the answers of /api/cea/daily
Responses ==
    { HttpFailure,
      JsonBody(DMYString(14, 6, 2024), JsonNumber(JNum(2))),
      JsonBody(ISOString(2024, 2, 30), JsonString(<<"1">>)),
      JsonBody(DMYString(14, 6, 2024), JsonNumber(JNum(-1))),
      JsonBody(NotAString, JsonNumber(JNum(1))) }

\* what localStorage may hold under STORAGE_KEY when the component mounts
InitialItems ==
    { ItemAbsent, ItemUnparseable,
      ItemObject([k \in {ISOString(2024, 6, 15)} |-> JsonNumber(JNum(1))]),
      ItemObject([k \in {ISOString(2024, 6, 15), ISOString(2024, 2, 30),
                         ISOString(2024, 6, 14), <<"x">>} |->
                    IF k = ISOString(2024, 6, 15) THEN JsonString(<<"2">>)
                    ELSE IF k = ISOString(2024, 2, 30) THEN JsonNumber(JNum(1))
                    ELSE IF k = ISOString(2024, 6, 14) THEN JsonNumber(JNum(-1))
                    ELSE JsonNumber(JNum(2))]) }

\* the calls of the parsers the handlers make on these inputs, evaluated
\* once for each engine
parseInputDateOf ==
    [lenient \in BOOLEAN |->
        [d \in DateTexts \cup {r.date : r \in Responses} |->
            parseInputDate(lenient, d)]]

csvParseOf ==
    [lenient \in BOOLEAN |->
        [t \in Types |->
            [text \in CsvTexts \cup {sampleCSV(valueColumnKeyOf(t))} |->
                csvParse(lenient, text, valueColumnKeyOf(t))]]]

initialDataMapOf ==
    [lenient \in BOOLEAN |->
        [raw \in InitialItems |-> initialDataMap(lenient, raw)]]

-----------------------------------------------------------------------------
(* The handlers and effects of the component                               *)

\* the state after a handler: the persist effect runs when dataMap changed
Persist(newMap) == storage' = [storage EXCEPT ![type] = persisted(newMap)]

upsertOne(dateText, valueText) ==
    LET iso == parseInputDateOf[engineLenient][dateText]
        v == StringToNumber(RemoveCommas(valueText))
    IN  /\ mounted
        /\ IF iso = Null
           THEN /\ errors' = <<Message("Please enter a valid date (DD-MM-YYYY).")>>
                /\ msg' = Null
                /\ UNCHANGED <<dataMap, storage>>
           ELSE IF ~NumberIsFinite(v) \/ LessThanZero(v)
           THEN /\ errors' = <<Message("Please enter a valid non-negative number")>>
                /\ msg' = Null
                /\ UNCHANGED <<dataMap, storage>>
           ELSE /\ errors' = <<>>
                /\ dataMap' = MapSet(dataMap, iso, v)
                /\ Persist(dataMap')
                /\ msg' = <<"Saved">>
        /\ UNCHANGED <<engineLenient, fetchStatus, loads, pending, type,
                       mounted, harnessVars>>

removeDate(isoDate) ==
    /\ mounted
    /\ dataMap' = MapDelete(dataMap, isoDate)
    /\ Persist(dataMap')
    /\ UNCHANGED <<engineLenient, errors, msg, fetchStatus, loads, pending, type,
                   mounted, harnessVars>>

clearAll(confirmed) ==
    /\ mounted
    /\ IF ~confirmed THEN UNCHANGED <<dataMap, storage, msg>>
       ELSE /\ dataMap' = EmptyMap
            /\ Persist(dataMap')
            /\ msg' = <<"Cleared all data.">>
    /\ UNCHANGED <<engineLenient, errors, fetchStatus, loads, pending, type,
                   mounted, harnessVars>>

\* importCSV up to its await: file is FALSE when no file was chosen
importCSVStart(file) ==
    /\ mounted
    /\ msg' = Null
    /\ errors' = <<>>
    /\ pending' = IF file THEN [pending EXCEPT !.imports = Append(@, type)]
                  ELSE pending
    /\ UNCHANGED <<engineLenient, dataMap, fetchStatus, loads, storage, type,
                   mounted, harnessVars>>

\* seq without its i-th element
RemoveAt(seq, i) == SubSeq(seq, 1, i - 1) \o SubSeq(seq, i + 1, Len(seq))

\* importCSV of the i-th pending call after file.text() has settled with the
\* given text (or rejected); valueColumnKey is the one of the render that
\* made the call, and the state setters of an unmounted component do nothing
importCSVDone(i, text) ==
    /\ i \in 1..Len(pending.imports)
    /\ pending' = [pending EXCEPT !.imports = RemoveAt(@, i)]
    /\ IF ~mounted
       THEN UNCHANGED <<dataMap, storage, msg, errors>>
       ELSE IF text = Unreadable
       THEN /\ errors' = <<Message("Could not read CSV.")>>
            /\ UNCHANGED <<dataMap, storage, msg>>
       ELSE LET res == csvParseOf[engineLenient][pending.imports[i]][text]
                shown == IF res.errors # <<>> THEN FirstErrors(res.errors)
                         ELSE errors
            IN  IF res.parsed = <<>>
                THEN /\ errors' = IF shown # <<>> THEN shown
                                  ELSE <<Message("No valid rows found in CSV.")>>
                     /\ UNCHANGED <<dataMap, storage, msg>>
                ELSE /\ errors' = shown
                     /\ dataMap' = mergeRecords(dataMap, res.parsed)
                     /\ Persist(dataMap')
                     /\ msg' = <<"Imported">>
    /\ UNCHANGED <<engineLenient, fetchStatus, loads, type, mounted, harnessVars>>

\* the button is rendered by EmptyState, that is while the store is empty
loadSample ==
    /\ mounted
    /\ DOMAIN dataMap = {}
    /\ LET res == csvParseOf[engineLenient][type][sampleCSV(valueColumnKeyOf(type))]
       IN  /\ dataMap' = mergeRecords(dataMap, res.parsed)
           /\ Persist(dataMap')
    /\ msg' = <<"Loaded sample data.">>
    /\ UNCHANGED <<engineLenient, errors, fetchStatus, loads, pending, type,
                   mounted, harnessVars>>

\* fetchLatestFromCEA up to its await
fetchLatestFromCEAStart ==
    /\ mounted
    /\ fetchStatus' = <<"Fetching">>
    /\ pending' = [pending EXCEPT !.fetches = @ + 1]
    /\ UNCHANGED <<engineLenient, dataMap, errors, msg, loads, storage, type,
                   mounted, harnessVars>>

\* fetchLatestFromCEA after its fetch has settled with the given response;
\* the state setters of an unmounted component do nothing
fetchLatestFromCEADone(response) ==
    /\ pending.fetches > 0
    /\ pending' = [pending EXCEPT !.fetches = @ - 1]
    /\ LET iso == parseInputDateOf[engineLenient][response.date]
           total == ToNumber(response.total_mu)
       IN  IF ~mounted
           THEN UNCHANGED <<dataMap, storage, fetchStatus>>
           ELSE IF \/ ~response.ok
              \/ iso = Null
              \/ ~NumberIsFinite(total) \/ LessThanZero(total)
           THEN /\ fetchStatus' = <<"Auto-fetch failed">>
                /\ UNCHANGED <<dataMap, storage>>
           ELSE /\ dataMap' = MapSet(dataMap, iso, total)
                /\ Persist(dataMap')
                /\ fetchStatus' = <<"Fetched & saved">>
    /\ UNCHANGED <<engineLenient, errors, msg, loads, type, mounted, harnessVars>>

\* mutant: the rows of the default CSV are merged into the store
loadDefaultCSVDone_Merge(i, text) ==
    /\ i \in 1..Len(loads)
    /\ ~loads[i].done
    /\ loads' = [loads EXCEPT ![i].done = TRUE]
    /\ IF text = Unreadable \/ loads[i].cancelled
       THEN UNCHANGED <<dataMap, storage, fetchStatus, errors>>
       ELSE LET res == csvParseOf[engineLenient][loads[i].type][text]
            IN  /\ dataMap' = mergeRecords(dataMap, res.parsed)
                /\ Persist(dataMap')
                /\ UNCHANGED <<fetchStatus, errors>>
    /\ UNCHANGED <<engineLenient, msg, pending, type, mounted, harnessVars>>

\* loadDefaultCSV of the i-th effect run after its fetch has settled with
\* the given text (or failed: Unreadable)
loadDefaultCSVDone(i, text) ==
    /\ i \in 1..Len(loads)
    /\ ~loads[i].done
    /\ loads' = [loads EXCEPT ![i].done = TRUE]
    /\ IF text = Unreadable
       THEN /\ errors' = IF loads[i].cancelled \/ errors # <<>> THEN errors
                         ELSE <<Message("Could not load default CSV")>>
            /\ UNCHANGED <<dataMap, storage, fetchStatus>>
       ELSE LET res == csvParseOf[engineLenient][loads[i].type][text]
            IN  IF loads[i].cancelled
                THEN UNCHANGED <<dataMap, storage, fetchStatus, errors>>
                ELSE IF res.parsed = <<>>
                THEN /\ errors' =
                          IF errors # <<>> THEN errors
                          ELSE <<Message("Default CSV loaded but no valid rows were found")>>
                     /\ UNCHANGED <<dataMap, storage, fetchStatus>>
                ELSE /\ dataMap' = SetAll(EmptyMap, res.parsed)
                     /\ Persist(dataMap')
                     /\ fetchStatus' = IF res.errors # <<>>
                                       THEN <<"Loaded with issues">>
                                       ELSE <<"Loaded">>
                     /\ UNCHANGED errors
    /\ UNCHANGED <<engineLenient, msg, pending, type, mounted, harnessVars>>

\* the effect runs of loadDefaultCSV one component goes through
MaxEffectRuns == 2

\* mutant: the effect has no cleanup, the load of the previous props is not
\* cancelled
changeType_NoCleanup(newType) ==
    /\ mounted
    /\ newType # type
    /\ type' = newType
    /\ loads' = Append(loads,
                       [type |-> newType, cancelled |-> FALSE, done |-> FALSE])
    /\ storage' = [storage EXCEPT ![newType] = persisted(dataMap)]
    /\ UNCHANGED <<engineLenient, dataMap, errors, msg, fetchStatus, pending,
                   mounted, harnessVars>>

\* a render with another props.type (and with it defaultCsvPath and
\* valueColumnKey): the cleanup of the default-load effect sets cancelled
\* in the closure of its last run, the effect runs again for the new props,
\* and the persist effect runs because STORAGE_KEY changed; useState keeps
\* dataMap, its initializer does not run again
changeType(newType) ==
    /\ mounted
    /\ newType # type
    /\ type' = newType
    /\ loads' = Append([loads EXCEPT ![Len(loads)].cancelled = TRUE],
                       [type |-> newType, cancelled |-> FALSE, done |-> FALSE])
    /\ storage' = [storage EXCEPT ![newType] = persisted(dataMap)]
    /\ UNCHANGED <<engineLenient, dataMap, errors, msg, fetchStatus, pending,
                   mounted, harnessVars>>

\* the component unmounts: the cleanup of the default-load effect runs
unmount ==
    /\ mounted
    /\ mounted' = FALSE
    /\ loads' = [loads EXCEPT ![Len(loads)].cancelled = TRUE]
    /\ UNCHANGED <<engineLenient, dataMap, errors, msg, fetchStatus, pending,
                   storage, type, harnessVars>>

-----------------------------------------------------------------------------
(* Specification Spec: the mounted component and its handlers              *)

\* the state after the first render and its effects: dataMap restored from
\* localStorage, the default CSV being fetched, the store persisted
Init ==
    /\ engineLenient \in BOOLEAN
    /\ type = "generation"
    /\ \E raw \in InitialItems :
          /\ dataMap = initialDataMapOf[engineLenient][raw]
          /\ storage = [t \in Types |->
                          IF t = type THEN persisted(dataMap) ELSE ItemAbsent]
    /\ errors = <<>>
    /\ msg = Null
    /\ fetchStatus = Null
    /\ loads = <<[type |-> type, cancelled |-> FALSE, done |-> FALSE]>>
    /\ pending = [imports |-> <<>>, fetches |-> 0]
    /\ mounted = TRUE
    /\ fn = "component" /\ args = <<>> /\ ret = NotCalled

UpsertOne == \E d \in DateTexts, v \in ValueTexts : upsertOne(d, v)

RemoveDate == \E k \in DOMAIN dataMap : removeDate(k)

ClearAll == \E confirmed \in BOOLEAN : clearAll(confirmed)

ImportCSVStart ==
    \E file \in BOOLEAN :
        /\ file => Len(pending.imports) < MaxPendingImports
        /\ importCSVStart(file)

ImportCSVDone ==
    \E i \in 1..Len(pending.imports), text \in CsvTexts \cup {Unreadable} :
        importCSVDone(i, text)

LoadSample == loadSample

FetchLatestStart ==
    /\ pending.fetches < MaxPendingFetches
    /\ fetchLatestFromCEAStart

FetchLatestDone == \E r \in Responses : fetchLatestFromCEADone(r)

LoadDefaultCSVDone ==
    \E i \in 1..Len(loads), text \in CsvTexts \cup {Unreadable} :
        loadDefaultCSVDone(i, text)

ChangeType ==
    \E newType \in Types :
        /\ Len(loads) < MaxEffectRuns
        /\ changeType(newType)

Unmount == unmount

Next ==
    \/ UpsertOne
    \/ RemoveDate
    \/ ClearAll
    \/ ImportCSVStart
    \/ ImportCSVDone
    \/ LoadSample
    \/ FetchLatestStart
    \/ FetchLatestDone
    \/ LoadDefaultCSVDone

Spec == Init /\ [][Next]_vars

-----------------------------------------------------------------------------
(* Specification SpecLife: the component through a change of its type prop *)
(* and its unmount, with the default CSV loads, the entry form, the        *)
(* table's remove and clear, and the CSV import                            *)

NextLife ==
    \/ UpsertOne
    \/ RemoveDate
    \/ ClearAll
    \/ ImportCSVStart
    \/ ImportCSVDone
    \/ LoadDefaultCSVDone
    \/ ChangeType
    \/ Unmount

SpecLife == Init /\ [][NextLife]_vars

\* a key of the store that is a calendar date: YYYY-MM-DD with a month
\* 01..12 and a day that exists in that month of that year
IsRealDateKey(k) ==
    /\ MatchesISO(k)
    /\ IsRealDate(DigitsValue(SubSeq(k, 1, 4)), DigitsValue(SubSeq(k, 6, 7)),
                  DigitsValue(SubSeq(k, 9, 10)))

\* C2: in every step of every interleaving of the handlers and the
\* completions, a date of the store is still in the store afterwards unless
\* the step is removeDate of that exact date or a confirmed clearAll; no
\* other operation deletes a key.
C2_OnlyRemoveAndClearDelete ==
    [][\A k \in DOMAIN dataMap :
          k \notin DOMAIN dataMap' => (removeDate(k) \/ clearAll(TRUE))]_vars

\* the steps that are neither a remove nor a clear and delete a key are
\* completions of the default CSV load
C2_OnlyRemoveClearAndDefaultLoadDelete ==
    [][\A k \in DOMAIN dataMap :
          k \notin DOMAIN dataMap' =>
              \/ removeDate(k)
              \/ clearAll(TRUE)
              \/ LoadDefaultCSVDone]_vars

\* C3: in every reachable state every value of dataMap is a finite number
\* that is at least 0, whichever path wrote it (localStorage restore,
\* upsert, CSV import, sample load, default CSV load, auto-fetch).
C3_StoredValuesFiniteNonNegative ==
    fn = "component" =>
        \A k \in DOMAIN dataMap :
            NumberIsFinite(dataMap[k]) /\ AtLeastZero(dataMap[k])

\* a store that holds values after a negative or non-numeric value was
\* refused by upsertOne, a negative total by the auto-fetch, and a row by
\* the default CSV load
C3_Witness ==
    /\ fn = "component"
    /\ DOMAIN dataMap # {}
    /\ errors = <<Message("Please enter a valid non-negative number")>>
    /\ fetchStatus = <<"Auto-fetch failed">>
    /\ loads[1].done

\* C5: in every reachable state every key of dataMap is a real Gregorian
\* date; a YYYY-MM-DD input whose day does not exist in its month, such as
\* 2024-02-30, is never stored by upsert, CSV import, auto-fetch or the
\* localStorage restore.
C5_EveryKeyIsARealDate ==
    fn = "component" => \A k \in DOMAIN dataMap : IsRealDateKey(k)

\* on an engine whose Date parser rejects a day that does not exist, every
\* key has the shape YYYY-MM-DD or is the unpadded key of a year below 1000
\* (C4), and names a real date
KeysOnStrictEngine ==
    (fn = "component" /\ ~engineLenient) =>
        \A k \in DOMAIN dataMap :
            IsRealDateKey(k) \/ k = <<"5", "0", "0">> \o SubSeq(ISOString(2024, 6, 15), 5, 10)

-----------------------------------------------------------------------------
(* Date arithmetic and the monthly and weekly aggregation                  *)

\* d.toISOString() of an invalid Date throws a RangeError
RangeError == <<"RangeError">>

clamp(n, min, max) ==
    LET lo == IF n > min THEN n ELSE min
    IN  IF lo < max THEN lo ELSE max

isoMinusDays(lenient, iso, days) ==
    LET d == DateFromISO(lenient, iso)
    IN  IF Len(d) = 0 THEN RangeError ELSE toISOString10(d[1] - days)

isoPlusDays(lenient, iso, days) ==
    LET d == DateFromISO(lenient, iso)
    IN  IF Len(d) = 0 THEN RangeError ELSE toISOString10(d[1] + days)

\* the week starts on Monday
startOfWeekISO(lenient, iso) ==
    LET d == DateFromISO(lenient, iso)
        dow == getUTCDay(d[1])
        diffToMon == IF dow = 0 THEN -6 ELSE 1 - dow
    IN  IF Len(d) = 0 THEN RangeError ELSE toISOString10(d[1] + diffToMon)

monthKey(isoDate) == Slice(isoDate, 0, 7)

\* Number(s) of the digit strings cut out of a key
NumberOf(s) == StringToNumber(s).v

addMonths(ym, delta) ==
    LET parts == Split(ym, "-")
        y == NumberOf(parts[1])
        m == NumberOf(parts[2])
        d == DateUTC(y, m - 1 + delta, 1)
    IN  IntToString(getUTCFullYear(d)) \o <<"-">>
            \o PadStart(NatToString(getUTCMonth(d) + 1), 2)

getYear(ym) == NumberOf(Slice(ym, 0, 4))

getMonth(ym) == NumberOf(Slice(ym, 5, 7))

\* `${getYear(m) - 1}-${String(getMonth(m)).padStart(2, "0")}`
prevYearMonthOf(m) ==
    IntToString(getYear(m) - 1) \o <<"-">> \o PadStart(NatToString(getMonth(m)), 2)

\* map.get(k): <<v>> when the key is present, <<>> for undefined
MapGet(m, k) == IF k \in DOMAIN m THEN <<m[k]>> ELSE <<>>

\* the sum of f over the keys S
RECURSIVE SumOver(_, _)
SumOver(f, S) ==
    IF S = {} THEN 0
    ELSE LET x == CHOOSE y \in S : TRUE
         IN  f[x] + SumOver(f, S \ {x})

\* a sum and its hasAny flag as a number or null
SumOrNull(f, S) == IF S = {} THEN NullNum ELSE RInt(SumOver(f, S))

\* mutant: a month's total is its last value, not the sum of its values
RECURSIVE buildMonthDayMapLoop_LastValue(_, _, _)
buildMonthDayMapLoop_LastValue(sortedDaily, i, map) ==
    IF i > Len(sortedDaily) THEN map
    ELSE LET d == sortedDaily[i]
             m == monthKey(d.date)
             day == NumberOf(Slice(d.date, 8, 10))
             rec == IF m \in DOMAIN map THEN map[m]
                    ELSE [total |-> 0, maxDay |-> 0, byDay |-> EmptyMap]
         IN  buildMonthDayMapLoop_LastValue(sortedDaily, i + 1,
                MapSet(map, m,
                    [total |-> d.value.v,
                     maxDay |-> IF day > rec.maxDay THEN day ELSE rec.maxDay,
                     byDay |-> MapSet(rec.byDay, day, d.value.v)]))

RECURSIVE buildMonthDayMapLoop(_, _, _)
buildMonthDayMapLoop(sortedDaily, i, map) ==
    IF i > Len(sortedDaily) THEN map
    ELSE LET d == sortedDaily[i]
             m == monthKey(d.date)
             day == NumberOf(Slice(d.date, 8, 10))
             rec == IF m \in DOMAIN map THEN map[m]
                    ELSE [total |-> 0, maxDay |-> 0, byDay |-> EmptyMap]
             prior == IF day \in DOMAIN rec.byDay THEN rec.byDay[day] ELSE 0
         IN  buildMonthDayMapLoop(sortedDaily, i + 1,
                MapSet(map, m,
                    [total |-> rec.total + d.value.v,
                     maxDay |-> IF day > rec.maxDay THEN day ELSE rec.maxDay,
                     byDay |-> MapSet(rec.byDay, day, prior + d.value.v)]))

buildMonthDayMap(sortedDaily) == buildMonthDayMapLoop(sortedDaily, 1, EmptyMap)

\* monthRec is <<rec>> or <<>> (undefined)
sumMonthUpToDay(monthRec, dayLimit) ==
    IF monthRec = <<>> THEN NullNum
    ELSE SumOrNull(monthRec[1].byDay,
                   {day \in 1..dayLimit : day \in DOMAIN monthRec[1].byDay})

toMonthly(sortedDaily) ==
    LET monthMap == buildMonthDayMap(sortedDaily)
        months == SortKeys(DOMAIN monthMap)
    IN  [i \in 1..Len(months) |->
            LET m == months[i]
                total == monthMap[m].total
                maxDay == monthMap[m].maxDay
                prevComparableMoM ==
                    sumMonthUpToDay(MapGet(monthMap, addMonths(m, -1)), maxDay)
                prevComparableYoY ==
                    sumMonthUpToDay(MapGet(monthMap, prevYearMonthOf(m)), maxDay)
            IN  [month |-> m,
                 total_gwh |-> total,
                 max_day |-> maxDay,
                 yoy_pct |-> IF IsNullNum(prevComparableYoY) THEN NullNum
                             ELSE growthPct(RInt(total), prevComparableYoY),
                 mom_pct |-> IF IsNullNum(prevComparableMoM) THEN NullNum
                             ELSE growthPct(RInt(total), prevComparableMoM)]]

\* mutant: the range is taken as given, from the from date to the to date
chartRange_AsGiven(lenient, sortedDaily, fromIso, toIso, rangeDays) ==
    [f |-> IF fromIso # <<>> THEN fromIso
           ELSE isoMinusDays(lenient, sortedDaily[Len(sortedDaily)].date,
                             clamp(rangeDays, 7, 3650)),
     t |-> IF toIso # <<>> THEN toIso ELSE sortedDaily[Len(sortedDaily)].date]

\* dailyForChart: f and t, the ends of the selected range in order
chartRange(lenient, sortedDaily, fromIso, toIso, rangeDays) ==
    LET lastIso == sortedDaily[Len(sortedDaily)].date
        effectiveTo == IF toIso # <<>> THEN toIso ELSE lastIso
        effectiveFrom == IF fromIso # <<>> THEN fromIso
                         ELSE isoMinusDays(lenient, lastIso, clamp(rangeDays, 7, 3650))
        ordered == StrLeq(effectiveFrom, effectiveTo)
    IN  [f |-> IF ordered THEN effectiveFrom ELSE effectiveTo,
         t |-> IF ordered THEN effectiveTo ELSE effectiveFrom]

\* sortedDaily.filter((d) => d.date >= f && d.date <= t)
filteredOf(sortedDaily, range) ==
    SelectSeq(sortedDaily,
              LAMBDA d : StrLeq(range.f, d.date) /\ StrLeq(d.date, range.t))

\* new Map(sortedDaily.map((d) => [d.date, d.value]))
dailyLookupOf(sortedDaily) ==
    [k \in {sortedDaily[i].date : i \in 1..Len(sortedDaily)} |->
        sortedDaily[CHOOSE i \in 1..Len(sortedDaily) :
            /\ sortedDaily[i].date = k
            /\ \A j \in (i + 1)..Len(sortedDaily) :
                    sortedDaily[j].date # k].value.v]

\* the loop that fills weekMap and weekOffsets
RECURSIVE weekLoop(_, _, _, _, _)
weekLoop(lenient, filtered, i, weekMap, weekOffsets) ==
    IF i > Len(filtered) THEN [weekMap |-> weekMap, weekOffsets |-> weekOffsets]
    ELSE LET d == filtered[i]
             wk == startOfWeekISO(lenient, d.date)
             off == DateFromISO(lenient, d.date)[1] - DateFromISO(lenient, wk)[1]
             sum == IF wk \in DOMAIN weekMap THEN weekMap[wk] ELSE 0
             offs == IF wk \in DOMAIN weekOffsets THEN weekOffsets[wk] ELSE {}
         IN  weekLoop(lenient, filtered, i + 1,
                      MapSet(weekMap, wk, sum + d.value.v),
                      MapSet(weekOffsets, wk, offs \cup {off}))

\* mutant: the comparison week is summed over all its seven days
sumWeekByOffsets_WholeWeek(lenient, dailyLookup, weekStartIso, offsetsSet) ==
    SumOrNull(dailyLookup,
              {isoPlusDays(lenient, weekStartIso, off) : off \in 0..6}
                  \cap DOMAIN dailyLookup)

sumWeekByOffsets(lenient, dailyLookup, weekStartIso, offsetsSet) ==
    LET keys == {isoPlusDays(lenient, weekStartIso, off) : off \in offsetsSet}
    IN  SumOrNull(dailyLookup, keys \cap DOMAIN dailyLookup)

WeekOf == <<"W", "k", " ", "o", "f", " ">>

\* a point of the chart: its growth figures are null when the comparator is
ChartPoint(label, units, prevYear, prevPeriod) ==
    [label |-> label,
     units |-> units,
     prev_year_units |-> prevYear,
     yoy_pct |-> IF IsNullNum(prevYear) THEN NullNum
                 ELSE growthPct(RInt(units), prevYear),
     mom_pct |-> IF IsNullNum(prevPeriod) THEN NullNum
                 ELSE growthPct(RInt(units), prevPeriod)]

\* weeks.map((wk) => ...): the point of the week wk
weekPoint(lenient, dailyLookup, wk, curr, offs) ==
    ChartPoint(WeekOf \o formatDDMMYYYY(wk), curr,
               sumWeekByOffsets(lenient, dailyLookup,
                                isoMinusDays(lenient, wk, 364), offs),
               sumWeekByOffsets(lenient, dailyLookup,
                                isoMinusDays(lenient, wk, 7), offs))

weekPoints(lenient, dailyLookup, acc) ==
    LET weeks == SortKeys(DOMAIN acc.weekMap)
    IN  [i \in 1..Len(weeks) |->
            weekPoint(lenient, dailyLookup, weeks[i], acc.weekMap[weeks[i]],
                      acc.weekOffsets[weeks[i]])]

\* the branch aggFreq === "weekly"
dailyForChartWeekly(lenient, filtered, dailyLookup) ==
    weekPoints(lenient, dailyLookup,
               weekLoop(lenient, filtered, 1, EmptyMap, EmptyMap))

\* the loop that fills mMap and monthDays
\* mutant: a day's value replaces the total of its month
RECURSIVE monthLoop_Overwrite(_, _, _, _)
monthLoop_Overwrite(filtered, i, mMap, monthDays) ==
    IF i > Len(filtered) THEN [mMap |-> mMap, monthDays |-> monthDays]
    ELSE LET d == filtered[i]
             mk == monthKey(d.date)
             day == NumberOf(Slice(d.date, 8, 10))
             days == IF mk \in DOMAIN monthDays THEN monthDays[mk] ELSE {}
         IN  monthLoop_Overwrite(filtered, i + 1,
                                 MapSet(mMap, mk, d.value.v),
                                 MapSet(monthDays, mk, days \cup {day}))

RECURSIVE monthLoop(_, _, _, _)
monthLoop(filtered, i, mMap, monthDays) ==
    IF i > Len(filtered) THEN [mMap |-> mMap, monthDays |-> monthDays]
    ELSE LET d == filtered[i]
             mk == monthKey(d.date)
             day == NumberOf(Slice(d.date, 8, 10))
             sum == IF mk \in DOMAIN mMap THEN mMap[mk] ELSE 0
             days == IF mk \in DOMAIN monthDays THEN monthDays[mk] ELSE {}
         IN  monthLoop(filtered, i + 1,
                       MapSet(mMap, mk, sum + d.value.v),
                       MapSet(monthDays, mk, days \cup {day}))

sumMonthByDaySet(dailyLookup, ym, daySet) ==
    LET y == Slice(ym, 0, 4)
        m == Slice(ym, 5, 7)
        keys == {y \o <<"-">> \o m \o <<"-">> \o PadStart(NatToString(day), 2) :
                    day \in daySet}
    IN  SumOrNull(dailyLookup, keys \cap DOMAIN dailyLookup)

\* months.map((m) => ...): the point of the month m
monthPoint(dailyLookup, m, curr, days) ==
    ChartPoint(m, curr,
               sumMonthByDaySet(dailyLookup, prevYearMonthOf(m), days),
               sumMonthByDaySet(dailyLookup, addMonths(m, -1), days))

monthPoints(dailyLookup, acc) ==
    LET months == SortKeys(DOMAIN acc.mMap)
    IN  [i \in 1..Len(months) |->
            monthPoint(dailyLookup, months[i], acc.mMap[months[i]],
                       acc.monthDays[months[i]])]

\* the branch after the others: monthly
dailyForChartMonthly(filtered, dailyLookup) ==
    monthPoints(dailyLookup, monthLoop(filtered, 1, EmptyMap, EmptyMap))

\* k is the ISO string of a day after the day number first
IsLaterDay(k, first) ==
    /\ MatchesISO(k)
    /\ Len(DateFromISO(TRUE, k)) = 1
    /\ DateFromISO(TRUE, k)[1] > first
    /\ toISOString10(DateFromISO(TRUE, k)[1]) = k

\* mutant: the loop does not read the key startIso
loopKeys_SkipFirst(lenient, dailyLookup, startIso, endIso) ==
    {k \in DOMAIN dailyLookup :
        /\ StrLeq(k, endIso)
        /\ IsLaterDay(k, DateFromISO(lenient, startIso)[1])}

\* the keys of dailyLookup read by the loop
\*   let cur = startIso; while (cur <= endIso) { ...; cur = isoPlusDays(cur, 1) }
\* cur is startIso and then the ISO string of each following day, which up
\* to the year 9999 grows as a string with the day, so the loop reads the
\* key k exactly when k is one of these strings and k <= endIso
loopKeys(lenient, dailyLookup, startIso, endIso) ==
    {k \in DOMAIN dailyLookup :
        /\ StrLeq(k, endIso)
        /\ \/ k = startIso
           \/ IsLaterDay(k, DateFromISO(lenient, startIso)[1])}

\* isoPlusDays throws at the end of the first round when startIso is no date
sumRangeInclusive(lenient, dailyLookup, startIso, endIso) ==
    IF StrLess(endIso, startIso) THEN NullNum
    ELSE IF Len(DateFromISO(lenient, startIso)) = 0 THEN RangeError
    ELSE SumOrNull(dailyLookup, loopKeys(lenient, dailyLookup, startIso, endIso))

\* `${Number(iso.slice(0, 4)) - 1}${iso.slice(4)}`
sameDayPrevYear(iso) ==
    IntToString(NumberOf(Slice(iso, 0, 4)) - 1) \o Slice(iso, 4, Len(iso))

\* mutant: the date Date.UTC rolls over to is taken as it is
sameDayPrevMonth_RollOver(iso) ==
    toISOString10(DateUTC(NumberOf(Slice(iso, 0, 4)),
                          NumberOf(Slice(iso, 5, 7)) - 2,
                          NumberOf(Slice(iso, 8, 10))))

sameDayPrevMonth(iso) ==
    LET y == NumberOf(Slice(iso, 0, 4))
        m == NumberOf(Slice(iso, 5, 7))
        d == NumberOf(Slice(iso, 8, 10))
        iso2 == toISOString10(DateUTC(y, m - 2, d))
    IN  IF NumberOf(Slice(iso2, 8, 10)) = d THEN iso2 ELSE Null

\* dailyLookup.get(key) ?? null, key a string or null
lookupOrNull(dailyLookup, key) ==
    IF key \in DOMAIN dailyLookup THEN RInt(dailyLookup[key]) ELSE NullNum

\* the branch aggFreq === "daily"
dailyForChartDaily(filtered, dailyLookup) ==
    [i \in 1..Len(filtered) |->
        ChartPoint(formatDDMMYYYY(filtered[i].date), filtered[i].value.v,
                   lookupOrNull(dailyLookup, sameDayPrevYear(filtered[i].date)),
                   lookupOrNull(dailyLookup, sameDayPrevMonth(filtered[i].date)))]

\* the point pushed for the day cur
rollingPoint(cur, currSum, prevSum) ==
    [label |-> formatDDMMYYYY(cur),
     units |-> IF IsNullNum(currSum) THEN 0 ELSE currSum[1],
     prev_year_units |-> prevSum,
     yoy_pct |-> IF ~IsNullNum(currSum) /\ ~IsNullNum(prevSum)
                 THEN growthPct(currSum, prevSum) ELSE NullNum,
     mom_pct |-> NullNum]

\* the loop while (cur <= t) of the branch aggFreq === "rolling30"
RECURSIVE rollingLoop(_, _, _, _, _)
rollingLoop(lenient, dailyLookup, cur, t, points) ==
    IF ~StrLeq(cur, t) THEN points
    ELSE IF Len(DateFromISO(lenient, cur)) = 0 THEN RangeError
    ELSE rollingLoop(lenient, dailyLookup, isoPlusDays(lenient, cur, 1), t,
            Append(points,
                rollingPoint(cur,
                    sumRangeInclusive(lenient, dailyLookup,
                                      isoMinusDays(lenient, cur, 29), cur),
                    sumRangeInclusive(lenient, dailyLookup,
                        isoMinusDays(lenient, isoMinusDays(lenient, cur, 365), 29),
                        isoMinusDays(lenient, cur, 365)))))

\* useMemo dailyForChart
dailyForChart(lenient, sortedDaily, fromIso, toIso, rangeDays, aggFreq) ==
    IF sortedDaily = <<>> THEN <<>>
    ELSE LET range == chartRange(lenient, sortedDaily, fromIso, toIso, rangeDays)
             filtered == filteredOf(sortedDaily, range)
             dailyLookup == dailyLookupOf(sortedDaily)
         IN  CASE aggFreq = "daily" ->
                    dailyForChartDaily(filtered, dailyLookup)
               [] aggFreq = "rolling30" ->
                    rollingLoop(lenient, dailyLookup, range.f, range.t, <<>>)
               [] aggFreq = "weekly" ->
                    dailyForChartWeekly(lenient, filtered, dailyLookup)
               [] aggFreq = "monthly" ->
                    dailyForChartMonthly(filtered, dailyLookup)

-----------------------------------------------------------------------------
(* Specification SpecAgg: toMonthly and dailyForChart applied to stores    *)
(* of a few days of four months and of three weeks                         *)

MaxAggValue == 2

AggValues == {JNum(1), JNum(MaxAggValue)}

\* days of December 2023, January and February 2024 and February 2023
MonthStoreKeys ==
    { ISOString(2023, 12, 3), ISOString(2024, 1, 3), ISOString(2024, 1, 5),
      ISOString(2024, 2, 1), ISOString(2024, 2, 5), ISOString(2023, 2, 1) }

\* Monday 10 to Wednesday 12 June 2024, Monday 3 June 2024, and Monday 12
\* to Wednesday 14 June 2023, the week 364 days before 10 June 2024
WeekStoreKeys ==
    { ISOString(2024, 6, 10), ISOString(2024, 6, 11), ISOString(2024, 6, 12),
      ISOString(2024, 6, 3),
      ISOString(2023, 6, 12), ISOString(2023, 6, 13), ISOString(2023, 6, 14) }

\* every day of November 2023, all with one value, or with the values
\* alternating from day to day
FullMonthKeys == {ISOString(2023, 11, d) : d \in 1..30}

FullMonthStores ==
    {[k \in FullMonthKeys |-> v] : v \in AggValues}
        \cup {[k \in FullMonthKeys |->
                    JNum(1 + (DigitsValue(SubSeq(k, 9, 10)) % MaxAggValue))]}

\* a day of the month after the complete month and one of the month after
FullMonthNeighbours == {ISOString(2023, 12, 3), ISOString(2024, 1, 3)}

Slicer(fromIso, toIso, rangeDays) ==
    [fromIso |-> fromIso, toIso |-> toIso, rangeDays |-> rangeDays]

\* the slicer left empty with rangeDays 120 or 7, a from date only, and a
\* from date after the to date
MonthSlicers ==
    { Slicer(<<>>, <<>>, 120), Slicer(<<>>, <<>>, 7),
      Slicer(ISOString(2024, 2, 1), <<>>, 120),
      Slicer(ISOString(2024, 2, 5), ISOString(2024, 1, 3), 120) }

WeekSlicers ==
    { Slicer(<<>>, <<>>, 120), Slicer(<<>>, <<>>, 7),
      Slicer(ISOString(2024, 6, 11), <<>>, 120),
      Slicer(ISOString(2024, 6, 12), ISOString(2024, 6, 10), 120) }

AggCall(name, m, slicer, aggFreq) ==
    /\ fn = name
    /\ args = [dataMap |-> m, slicer |-> slicer, aggFreq |-> aggFreq]

InitAgg ==
    /\ engineLenient \in BOOLEAN
    /\ ComponentIdle
    /\ \/ \E m \in MapsOver(MonthStoreKeys, AggValues) :
             \/ AggCall("toMonthly", m, Slicer(<<>>, <<>>, 120), "monthly")
             \/ \E sl \in MonthSlicers : AggCall("dailyForChart", m, sl, "monthly")
       \/ \E m \in MapsOver(FullMonthNeighbours, AggValues),
                full \in FullMonthStores :
             AggCall("toMonthly", m @@ full, Slicer(<<>>, <<>>, 120), "monthly")
       \/ \E m \in MapsOver(WeekStoreKeys, AggValues), sl \in WeekSlicers :
             AggCall("dailyForChart", m, sl, "weekly")
    /\ ret = NotCalled

ApplyToMonthly ==
    /\ fn = "toMonthly" /\ ~ret.done
    /\ ret' = Returned(toMonthly(sortedDailyOf(args.dataMap)))
    /\ UNCHANGED <<engineLenient, compVars, fn, args>>

ApplyDailyForChart ==
    /\ fn = "dailyForChart" /\ ~ret.done
    /\ ret' = Returned(dailyForChart(engineLenient, sortedDailyOf(args.dataMap),
                                     args.slicer.fromIso, args.slicer.toIso,
                                     args.slicer.rangeDays, args.aggFreq))
    /\ UNCHANGED <<engineLenient, compVars, fn, args>>

NextAgg == ApplyToMonthly \/ ApplyDailyForChart

SpecAgg == InitAgg /\ [][NextAgg]_vars

\* the calendar of the keys, by numbers: the month YYYY-MM of a key, its
\* day of the month, its day number and the Monday of its week
MonthOfKey(k) == SubSeq(k, 1, 7)

DayOfKey(k) == DigitsValue(SubSeq(k, 9, 10))

YearMonth(y, m) == SubSeq(ISOString(y, m, 1), 1, 7)

PreviousMonth(ym) ==
    LET y == DigitsValue(SubSeq(ym, 1, 4))
        m == DigitsValue(SubSeq(ym, 6, 7))
    IN  IF m = 1 THEN YearMonth(y - 1, 12) ELSE YearMonth(y, m - 1)

SameMonthLastYear(ym) ==
    YearMonth(DigitsValue(SubSeq(ym, 1, 4)) - 1, DigitsValue(SubSeq(ym, 6, 7)))

DayNumber(k) ==
    MakeDay(DigitsValue(SubSeq(k, 1, 4)), DigitsValue(SubSeq(k, 6, 7)) - 1,
            DayOfKey(k))

\* day 4 (1970-01-05) is a Monday
MondayOf(n) == n - ((n + 3) % 7)

MaxOf(S) == CHOOSE x \in S : \A y \in S : y <= x

\* the sum of the values the store holds on the keys K, null when none
StoredSum(store, K) ==
    LET present == K \cap DOMAIN store
    IN  IF present = {} THEN NullNum
        ELSE RInt(SumOver([k \in present |-> store[k].v], present))

\* the keys of the store inside the selected range
KeysInRange ==
    LET range == chartRange(engineLenient, sortedDailyOf(args.dataMap),
                            args.slicer.fromIso, args.slicer.toIso,
                            args.slicer.rangeDays)
    IN  {k \in DOMAIN args.dataMap : StrLeq(range.f, k) /\ StrLeq(k, range.t)}

GrowthOrNull(curr, prev) ==
    IF IsNullNum(prev) THEN NullNum ELSE growthPct(RInt(curr), prev)

\* the days 1..maxDay of the month ym that the store holds
DaysUpTo(store, ym, maxDay) ==
    {k \in DOMAIN store : MonthOfKey(k) = ym /\ DayOfKey(k) <= maxDay}

\* C9: a weekly bucket whose in-range data is only on Monday and Tuesday is
\* compared only against Monday and Tuesday of the week starting 364 days
\* earlier, and its YoY is null when that week has no Tuesday value, even
\* though it has a Monday value.
C9_WeeklyOffsetAlignment ==
    (fn = "dailyForChart" /\ args.aggFreq = "weekly" /\ ret.done) =>
        \A i \in 1..Len(ret.val) :
            LET wk == KeyOfDMY(SubSeq(ret.val[i].label, 7, 16))
                monday == DayNumber(wk)
                days == {DayNumber(k) : k \in {x \in KeysInRange :
                                                MondayOf(DayNumber(x)) = monday}}
                mon == toISOString10(monday - 364)
                tue == toISOString10(monday - 363)
            IN  days = {monday, monday + 1} =>
                  /\ ret.val[i].prev_year_units =
                        StoredSum(args.dataMap, {mon, tue})
                  /\ tue \notin DOMAIN args.dataMap =>
                        IsNullNum(ret.val[i].yoy_pct)

\* what the weekly buckets do compare against: the values the store holds
\* on the observed weekdays of the week 364 days earlier, and of the week 7
\* days earlier, null only when it holds none of them
WeeklyComparatorsAreObservedWeekdays ==
    (fn = "dailyForChart" /\ args.aggFreq = "weekly" /\ ret.done) =>
        \A i \in 1..Len(ret.val) :
            LET wk == KeyOfDMY(SubSeq(ret.val[i].label, 7, 16))
                monday == DayNumber(wk)
                days == {DayNumber(k) : k \in {x \in KeysInRange :
                                                MondayOf(DayNumber(x)) = monday}}
                yoy == StoredSum(args.dataMap, {toISOString10(d - 364) : d \in days})
                wow == StoredSum(args.dataMap, {toISOString10(d - 7) : d \in days})
            IN  /\ ret.val[i].prev_year_units = yoy
                /\ ret.val[i].yoy_pct = GrowthOrNull(ret.val[i].units, yoy)
                /\ ret.val[i].mom_pct = GrowthOrNull(ret.val[i].units, wow)

\* C10: for every monthly bucket of toMonthly and of the monthly chart the
\* MoM comparator is the sum of the stored values of the previous month on
\* days 1..maxDay and the YoY comparator that of the same month one year
\* earlier on days 1..maxDay, maxDay the largest day observed in the bucket;
\* growth is null when that day range of the comparison month has no value.
C10_MonthlyComparatorsUpToMaxDay ==
    /\ (fn = "toMonthly" /\ ret.done) =>
          \A i \in 1..Len(ret.val) :
              LET r == ret.val[i]
                  maxDay == MaxOf({DayOfKey(k) : k \in
                              {x \in DOMAIN args.dataMap : MonthOfKey(x) = r.month}})
                  mom == StoredSum(args.dataMap,
                            DaysUpTo(args.dataMap, PreviousMonth(r.month), maxDay))
                  yoy == StoredSum(args.dataMap,
                            DaysUpTo(args.dataMap, SameMonthLastYear(r.month), maxDay))
              IN  /\ r.mom_pct = GrowthOrNull(r.total_gwh, mom)
                  /\ r.yoy_pct = GrowthOrNull(r.total_gwh, yoy)
    /\ (fn = "dailyForChart" /\ args.aggFreq = "monthly" /\ ret.done) =>
          \A i \in 1..Len(ret.val) :
              LET r == ret.val[i]
                  maxDay == MaxOf({DayOfKey(k) : k \in
                              {x \in KeysInRange : MonthOfKey(x) = r.label}})
                  mom == StoredSum(args.dataMap,
                            DaysUpTo(args.dataMap, PreviousMonth(r.label), maxDay))
                  yoy == StoredSum(args.dataMap,
                            DaysUpTo(args.dataMap, SameMonthLastYear(r.label), maxDay))
              IN  /\ r.mom_pct = GrowthOrNull(r.units, mom)
                  /\ r.prev_year_units = yoy
                  /\ r.yoy_pct = GrowthOrNull(r.units, yoy)

\* toMonthly alone compares against days 1..maxDay
ToMonthlyComparatorsUpToMaxDay ==
    (fn = "toMonthly" /\ ret.done) =>
        \A i \in 1..Len(ret.val) :
            LET r == ret.val[i]
                maxDay == MaxOf({DayOfKey(k) : k \in
                            {x \in DOMAIN args.dataMap : MonthOfKey(x) = r.month}})
                mom == StoredSum(args.dataMap,
                          DaysUpTo(args.dataMap, PreviousMonth(r.month), maxDay))
                yoy == StoredSum(args.dataMap,
                          DaysUpTo(args.dataMap, SameMonthLastYear(r.month), maxDay))
            IN  /\ r.max_day = maxDay
                /\ r.mom_pct = GrowthOrNull(r.total_gwh, mom)
                /\ r.yoy_pct = GrowthOrNull(r.total_gwh, yoy)

\* the monthly chart compares against the days of the month observed in
\* the bucket, not against every day up to the largest of them
MonthlyChartComparatorsAreObservedDays ==
    (fn = "dailyForChart" /\ args.aggFreq = "monthly" /\ ret.done) =>
        \A i \in 1..Len(ret.val) :
            LET r == ret.val[i]
                days == {DayOfKey(k) : k \in
                            {x \in KeysInRange : MonthOfKey(x) = r.label}}
                on(ym) == {k \in DOMAIN args.dataMap :
                              MonthOfKey(k) = ym /\ DayOfKey(k) \in days}
                mom == StoredSum(args.dataMap, on(PreviousMonth(r.label)))
                yoy == StoredSum(args.dataMap, on(SameMonthLastYear(r.label)))
            IN  /\ r.mom_pct = GrowthOrNull(r.units, mom)
                /\ r.prev_year_units = yoy
                /\ r.yoy_pct = GrowthOrNull(r.units, yoy)

\* the number of days of the month ym
DaysOfMonth(ym) ==
    DaysInMonth(DigitsValue(SubSeq(ym, 1, 4)), DigitsValue(SubSeq(ym, 6, 7)))

\* C11: toMonthly returns one bucket for every calendar month that holds a
\* stored date, in ascending month order; a bucket's total is the sum of the
\* month's stored values, and the max_day of a month with a value on every
\* calendar day is the number of its days with data.
C11_ToMonthlyBuckets ==
    (fn = "toMonthly" /\ ret.done) =>
        LET months == {MonthOfKey(k) : k \in DOMAIN args.dataMap}
        IN  /\ Len(ret.val) = Cardinality(months)
            /\ {ret.val[i].month : i \in 1..Len(ret.val)} = months
            /\ \A i \in 1..(Len(ret.val) - 1) :
                    StrLess(ret.val[i].month, ret.val[i + 1].month)
            /\ \A i \in 1..Len(ret.val) :
                    LET keys == {k \in DOMAIN args.dataMap :
                                    MonthOfKey(k) = ret.val[i].month}
                    IN  /\ RInt(ret.val[i].total_gwh) = StoredSum(args.dataMap, keys)
                        /\ Cardinality(keys) = DaysOfMonth(ret.val[i].month) =>
                                ret.val[i].max_day = Cardinality(keys)

\* toMonthly has returned three buckets, the first of them the complete
\* November 2023 with days of different values
C11_Witness ==
    /\ fn = "toMonthly" /\ ret.done
    /\ Len(ret.val) = 3
    /\ ret.val[1].month = YearMonth(2023, 11)
    /\ ret.val[1].max_day = 30
    /\ ret.val[1].total_gwh > 30
    /\ ret.val[1].total_gwh < 30 * MaxAggValue

-----------------------------------------------------------------------------
(* The key figures: computeKPIs and its helpers                            *)

\* computeKPIs' isoAddYears: Number of a slice that is no number is NaN, the
\* Date built from it is invalid and toISOString of the last-day Date throws
isoAddYears(iso, deltaYears) ==
    LET y == StringToNumber(Slice(iso, 0, 4))
        m == StringToNumber(Slice(iso, 5, 7))
        d == StringToNumber(Slice(iso, 8, 10))
    IN  IF y.k # "num" \/ m.k # "num" \/ d.k # "num" THEN RangeError
        ELSE LET tryDt == DateUTC(y.v + deltaYears, m.v - 1, d.v)
             IN  IF /\ getUTCFullYear(tryDt) = y.v + deltaYears
                    /\ getUTCMonth(tryDt) = m.v - 1
                    /\ getUTCDate(tryDt) = d.v
                 THEN toISOString10(tryDt)
                 ELSE toISOString10(DateUTC(y.v + deltaYears, m.v, 0))

\* { sum: count ? sum : null, count } for the keys the loop has read
sumAndCount(dailyLookup, keys) ==
    [sum |-> SumOrNull(dailyLookup, keys), count |-> Cardinality(keys)]

sumAndCountInclusive(lenient, dailyLookup, startIso, endIso) ==
    IF StrLess(endIso, startIso) THEN [sum |-> NullNum, count |-> 0]
    ELSE IF Len(DateFromISO(lenient, startIso)) = 0 THEN RangeError
    ELSE sumAndCount(dailyLookup,
                     loopKeys(lenient, dailyLookup, startIso, endIso))

\* x.sum != null && x.count ? x.sum / x.count : null
meanOf(x) ==
    IF ~IsNullNum(x.sum) /\ x.count # 0 THEN RQuot(x.sum, RInt(x.count))
    ELSE NullNum

avgForLastNDaysEnding(lenient, dailyLookup, endIso, nDays) ==
    [startIso |-> isoMinusDays(lenient, endIso, nDays - 1),
     endIso |-> endIso,
     avg |-> meanOf(sumAndCountInclusive(lenient, dailyLookup,
                        isoMinusDays(lenient, endIso, nDays - 1), endIso))]

\* a != null && b != null ? growthPct(a, b) : null
growthOfBoth(a, b) ==
    IF ~IsNullNum(a) /\ ~IsNullNum(b) THEN growthPct(a, b) ELSE NullNum

\* mutant: the window of the year before is the window 365 days earlier
avgPrevYear_365Days(lenient, dailyLookup, last) ==
    meanOf(sumAndCountInclusive(lenient, dailyLookup,
                                isoMinusDays(lenient, last.startIso, 365),
                                isoMinusDays(lenient, last.endIso, 365)))

\* the arguments of sumAndCountInclusive for py7 and py30: both ends of the
\* window of last moved by isoAddYears
prevYearWindow(last) ==
    [startIso |-> isoAddYears(last.startIso, -1),
     endIso |-> isoAddYears(last.endIso, -1)]

\* avg7PY and avg30PY: the mean over the window of last, both its ends
\* moved by isoAddYears
avgPrevYear(lenient, dailyLookup, last) ==
    meanOf(sumAndCountInclusive(lenient, dailyLookup,
                                prevYearWindow(last).startIso,
                                prevYearWindow(last).endIso))

\* mutant: the fiscal year starts in the calendar year of the latest date
fyStartYearOf_CalendarYear(date) == NumberOf(Slice(date, 0, 4))

\* latestM >= 4 ? latestY : latestY - 1
fyStartYearOf(date) ==
    IF NumberOf(Slice(date, 5, 7)) >= 4 THEN NumberOf(Slice(date, 0, 4))
    ELSE NumberOf(Slice(date, 0, 4)) - 1

\* `${year}-04-01`
aprilFirst(year) == IntToString(year) \o <<"-", "0", "4", "-", "0", "1">>

\* mutant: the month to date starts on the latest date
thisMonthStartOf_LatestDay(date) == date

\* `${latest.date.slice(0, 7)}-01`
thisMonthStartOf(date) == Slice(date, 0, 7) \o <<"-", "0", "1">>

\* the record computeKPIs returns for a store with data; latest is <<d>>
kpiRecord(latest, yoy, avg7, avg7PY, avg30, avg30PY, ytd, ytdPY, mtd, mtdPY) ==
    [latest |-> <<latest>>,
     latestYoY |-> yoy,
     avg7 |-> avg7,
     avg7YoY |-> growthOfBoth(avg7, avg7PY),
     avg30 |-> avg30,
     avg30YoY |-> growthOfBoth(avg30, avg30PY),
     ytdTotal |-> ytd,
     ytdYoY |-> growthOfBoth(ytd, ytdPY),
     mtdAvg |-> mtd,
     mtdYoY |-> growthOfBoth(mtd, mtdPY)]

\* the body of computeKPIs for a store with data whose latest date has
\* numbers in its year, month and day places
kpisOf(lenient, dailyLookup, latest, last7, last30) ==
    kpiRecord(latest,
        growthOfBoth(RInt(latest.value.v),
                     lookupOrNull(dailyLookup, isoAddYears(latest.date, -1))),
        last7.avg,
        avgPrevYear(lenient, dailyLookup, last7),
        last30.avg,
        avgPrevYear(lenient, dailyLookup, last30),
        sumAndCountInclusive(lenient, dailyLookup,
            aprilFirst(fyStartYearOf(latest.date)), latest.date).sum,
        sumAndCountInclusive(lenient, dailyLookup,
            aprilFirst(fyStartYearOf(latest.date) - 1),
            isoAddYears(latest.date, -1)).sum,
        meanOf(sumAndCountInclusive(lenient, dailyLookup,
            thisMonthStartOf(latest.date), latest.date)),
        meanOf(sumAndCountInclusive(lenient, dailyLookup,
            isoAddYears(thisMonthStartOf(latest.date), -1),
            isoAddYears(latest.date, -1))))

\* the record of nulls returned for an empty store; latest is <<>>
NoKpis ==
    [latest |-> <<>>, latestYoY |-> NullNum, avg7 |-> NullNum,
     avg7YoY |-> NullNum, avg30 |-> NullNum, avg30YoY |-> NullNum,
     ytdTotal |-> NullNum, ytdYoY |-> NullNum, mtdAvg |-> NullNum,
     mtdYoY |-> NullNum]

\* a call that ends with the exception e instead of a result
Thrown(e) == [threw |-> e]

HasThrown(r) == "threw" \in DOMAIN r

\* computeKPIs: the RangeError thrown by isoAddYears at line 251 leaves the
\* function
computeKPIs(lenient, sortedDaily) ==
    IF sortedDaily = <<>> THEN NoKpis
    ELSE IF isoAddYears(sortedDaily[Len(sortedDaily)].date, -1) = RangeError
    THEN Thrown(RangeError)
    ELSE kpisOf(lenient, dailyLookupOf(sortedDaily),
                sortedDaily[Len(sortedDaily)],
                avgForLastNDaysEnding(lenient, dailyLookupOf(sortedDaily),
                                      sortedDaily[Len(sortedDaily)].date, 7),
                avgForLastNDaysEnding(lenient, dailyLookupOf(sortedDaily),
                                      sortedDaily[Len(sortedDaily)].date, 30))

-----------------------------------------------------------------------------
(* Specification SpecKpi: isoAddYears applied to dates, computeKPIs to     *)
(* stores                                                                  *)

\* 3 March 2024, the first day of the seven that end with it and the day
\* before, and the same days of 2023
Avg7Keys ==
    { ISOString(2024, 3, 3), ISOString(2024, 2, 26), ISOString(2024, 2, 25),
      ISOString(2023, 3, 3), ISOString(2023, 2, 26), ISOString(2023, 2, 25) }

\* 3 March 2024, the first day of the thirty that end with it and the day
\* before, and the same days of 2023
Avg30Keys ==
    { ISOString(2024, 3, 3), ISOString(2024, 2, 3), ISOString(2024, 2, 2),
      ISOString(2023, 3, 3), ISOString(2023, 2, 3), ISOString(2023, 2, 2) }

\* the days around the start of the fiscal years 2023 and 2024
FiscalKeys ==
    { ISOString(2024, 4, 2), ISOString(2024, 4, 1), ISOString(2024, 3, 31),
      ISOString(2023, 4, 2), ISOString(2023, 4, 1), ISOString(2023, 3, 31) }

\* the end of the fiscal year 2023 and the start and end of the fiscal year
\* 2022
FiscalEndKeys ==
    { ISOString(2024, 3, 31), ISOString(2023, 6, 15), ISOString(2023, 4, 1),
      ISOString(2023, 3, 31), ISOString(2022, 4, 1), ISOString(2022, 3, 31) }

\* the ends of February 2024 and 2023 and the days before the month
FebruaryKeys ==
    { ISOString(2024, 2, 29), ISOString(2024, 2, 1), ISOString(2024, 1, 31),
      ISOString(2023, 2, 28), ISOString(2023, 2, 1), ISOString(2023, 1, 31) }

\* a day without generation and a day with
KpiValues == {JNum(0), JNum(MaxAggValue)}

KpiStoreKeys ==
    {Avg7Keys, Avg30Keys, FiscalKeys, FiscalEndKeys, FebruaryKeys}

\* the years of the dates handed to isoAddYears
KpiYears == {0, 1, 100, 101, 2023, 2024, 2025}

\* the ends of February, a day in the middle of a month, the ends of a
\* 30-day and of a 31-day month and of the year
KpiMonthDays ==
    { <<1, 1>>, <<2, 28>>, <<2, 29>>, <<3, 1>>, <<3, 31>>, <<4, 1>>, <<4, 30>>,
      <<6, 15>>, <<12, 31>> }

\* the dates of these years that exist
KpiDates ==
    {ISOString(y, md[1], md[2]) :
        y \in KpiYears, md \in {x \in KpiMonthDays : x[2] <= 28}}
    \cup {ISOString(y, md[1], md[2]) :
            y \in {z \in KpiYears : IsLeap(z)}, md \in KpiMonthDays}
    \cup {ISOString(y, md[1], md[2]) :
            y \in KpiYears, md \in {x \in KpiMonthDays : x[1] # 2}}

\* the latest dates whose windows are looked at: the days from 20 February
\* to 31 March of a common year, a leap year and the year after it
WindowDates ==
    {toISOString10(MakeDay(y, 1, 20) + n) : y \in {2023, 2024, 2025}, n \in 0..39}

InitKpi ==
    /\ engineLenient \in BOOLEAN
    /\ ComponentIdle
    /\ \/ \E iso \in KpiDates :
            /\ fn = "isoAddYears"
            /\ args = [iso |-> iso, deltaYears |-> -1]
       \/ \E iso \in WindowDates, n \in {7, 30} :
            /\ fn = "prevYearWindow"
            /\ args = [endIso |-> iso, nDays |-> n]
       \/ \E keys \in KpiStoreKeys : \E m \in MapsOver(keys, KpiValues) :
            /\ fn = "computeKPIs"
            /\ args = [dataMap |-> m]
    /\ ret = NotCalled

ApplyIsoAddYears ==
    /\ fn = "isoAddYears" /\ ~ret.done
    /\ ret' = Returned(isoAddYears(args.iso, args.deltaYears))
    /\ UNCHANGED <<engineLenient, compVars, fn, args>>

ApplyComputeKPIs ==
    /\ fn = "computeKPIs" /\ ~ret.done
    /\ ret' = Returned(computeKPIs(engineLenient, sortedDailyOf(args.dataMap)))
    /\ UNCHANGED <<engineLenient, compVars, fn, args>>

\* the window of the year before for the latest date and nDays, as
\* computeKPIs takes it from avgForLastNDaysEnding
ApplyPrevYearWindow ==
    /\ fn = "prevYearWindow" /\ ~ret.done
    /\ ret' = Returned(prevYearWindow(
                  avgForLastNDaysEnding(engineLenient, EmptyMap, args.endIso,
                                        args.nDays)))
    /\ UNCHANGED <<engineLenient, compVars, fn, args>>

NextKpi == ApplyIsoAddYears \/ ApplyComputeKPIs \/ ApplyPrevYearWindow

SpecKpi == InitKpi /\ [][NextKpi]_vars

\* the date one year before the key k: the same month and day when that
\* day exists, and the last day of the same month otherwise
OneYearBefore(k) ==
    LET y == DigitsValue(SubSeq(k, 1, 4)) - 1
        m == DigitsValue(SubSeq(k, 6, 7))
        d == DigitsValue(SubSeq(k, 9, 10))
    IN  ISOString(y, m, IF d <= DaysInMonth(y, m) THEN d ELSE DaysInMonth(y, m))

\* C12: isoAddYears(d, -1) returns the same month and day of the previous
\* year when that date exists and the last day of the same month of the
\* previous year otherwise (2024-02-29 gives 2023-02-28); the result is
\* always a real date.
C12_IsoAddYearsPreviousYear ==
    (fn = "isoAddYears" /\ ret.done) =>
        /\ IsRealDateKey(ret.val)
        /\ DigitsValue(SubSeq(args.iso, 1, 4)) >= 1 =>
                ret.val = OneYearBefore(args.iso)

\* what isoAddYears does for the dates from the year 101 on
IsoAddYearsFromYear101 ==
    (fn = "isoAddYears" /\ ret.done
        /\ DigitsValue(SubSeq(args.iso, 1, 4)) >= 101) =>
            ret.val = OneYearBefore(args.iso)

\* isoAddYears has been applied to the leap day 2024-02-29
LeapDayOneYearBack ==
    (fn = "isoAddYears" /\ ret.done /\ args.iso = ISOString(2024, 2, 29)) =>
        ret.val = ISOString(2023, 2, 28)

-----------------------------------------------------------------------------
(* Specification SpecDaily: the daily chart of stores around the ends of   *)
(* February, March and May, sameDayPrevMonth applied to every date of a    *)
(* common year and a leap year, and the rolling 30-day chart of stores on  *)
(* the ends of the windows of 9 March 2024                                 *)

\* 29 February 2024 with both candidates for its comparison in 2023, and
\* 5 March 2024 with its days one year and one month earlier
LeapDayKeys ==
    { ISOString(2024, 2, 29), ISOString(2023, 2, 28), ISOString(2023, 3, 1),
      ISOString(2024, 3, 5), ISOString(2023, 3, 5), ISOString(2024, 2, 5) }

\* the end of March 2024 with the end of February and the days of March
\* that Date.UTC(2024, 1, 30) and Date.UTC(2024, 1, 31) roll over to
LeapMarchKeys ==
    { ISOString(2024, 3, 29), ISOString(2024, 3, 30), ISOString(2024, 3, 31),
      ISOString(2024, 2, 29), ISOString(2024, 3, 1), ISOString(2024, 3, 2) }

\* 29 March 2023 and 31 May 2024 with the ends of the months before them and
\* the days they roll over to
MonthEndKeys ==
    { ISOString(2023, 3, 29), ISOString(2023, 2, 28), ISOString(2023, 3, 1),
      ISOString(2024, 5, 31), ISOString(2024, 4, 30), ISOString(2024, 5, 1) }

\* the slicer left empty, a from date only, and a from date after the to date
DaySlicers ==
    { Slicer(<<>>, <<>>, 120),
      Slicer(ISOString(2023, 3, 1), <<>>, 120),
      Slicer(ISOString(2024, 3, 30), ISOString(2024, 2, 29), 120) }

\* every date of 2023 and of 2024
DatesOfTwoYears ==
    {ISOString(y, m, d) : y \in {2023, 2024}, m \in 1..12, d \in 1..28}
    \cup {k \in {ISOString(y, m, d) : y \in {2023, 2024}, m \in 1..12, d \in 29..31} :
            DigitsValue(SubSeq(k, 9, 10))
                <= DaysInMonth(DigitsValue(SubSeq(k, 1, 4)),
                               DigitsValue(SubSeq(k, 6, 7)))}

\* the day number of 9 March 2024
RollingDay == MakeDay(2024, 2, 9)

\* 9 March 2024, the first day of its window and the day before it, and
\* the same three days of the window that ends 365 days earlier
RollingKeys ==
    {toISOString10(RollingDay - back) : back \in {0, 29, 30, 365, 394, 395}}

\* the three days around 9 March 2024, in order and swapped, and the last
\* seven days before the latest date
RollingSlicers ==
    { Slicer(toISOString10(RollingDay - 1), toISOString10(RollingDay + 1), 120),
      Slicer(toISOString10(RollingDay + 1), toISOString10(RollingDay - 1), 120),
      Slicer(<<>>, <<>>, 7) }

InitDaily ==
    /\ engineLenient \in BOOLEAN
    /\ ComponentIdle
    /\ \/ \E keys \in {LeapDayKeys, LeapMarchKeys, MonthEndKeys},
             sl \in DaySlicers :
             \E m \in MapsOver(keys, AggValues) :
                AggCall("dailyForChart", m, sl, "daily")
       \/ \E iso \in DatesOfTwoYears :
             fn = "sameDayPrevMonth" /\ args = [iso |-> iso]
       \/ \E m \in MapsOver(RollingKeys, AggValues), sl \in RollingSlicers :
             AggCall("dailyForChart", m, sl, "rolling30")
    /\ ret = NotCalled

ApplySameDayPrevMonth ==
    /\ fn = "sameDayPrevMonth" /\ ~ret.done
    /\ ret' = Returned(sameDayPrevMonth(args.iso))
    /\ UNCHANGED <<engineLenient, compVars, fn, args>>

NextDaily == ApplyDailyForChart \/ ApplySameDayPrevMonth

SpecDaily == InitDaily /\ [][NextDaily]_vars

\* the key of a chart label DD-MM-YYYY
KeyOfLabel(label) == KeyOfDMY(label)

\* the date one calendar month before the key k, on the same day of the
\* month: a sequence of one key, or of none when the previous month has no
\* such day
OneMonthBefore(k) ==
    LET ym == PreviousMonth(MonthOfKey(k))
    IN  IF DayOfKey(k) <= DaysOfMonth(ym)
        THEN <<ym \o <<"-">> \o SubSeq(k, 9, 10)>>
        ELSE <<>>

\* the points are one for every key of keys, labelled with it, in
\* ascending order of the keys
OnePointPerKey(points, keys) ==
    /\ Len(points) = Cardinality(keys)
    /\ {KeyOfLabel(points[i].label) : i \in 1..Len(points)} = keys
    /\ \A i \in 1..(Len(points) - 1) :
            StrLess(KeyOfLabel(points[i].label), KeyOfLabel(points[i + 1].label))

\* C13: the daily chart has exactly one point for every stored date d with
\* from <= d <= to, in ascending date order; a point's prior-year value is
\* the stored value one year before d on the same month and day, or on the
\* last day of that month when the day does not exist in the prior year
\* (29 February is compared with 28 February of the prior year), and its yoy
\* is null when no value is stored there.
C13_DailyPointsAndPriorYear ==
    (fn = "dailyForChart" /\ args.aggFreq = "daily" /\ ret.done) =>
        /\ OnePointPerKey(ret.val, KeysInRange)
        /\ \A i \in 1..Len(ret.val) :
              LET d == KeyOfLabel(ret.val[i].label)
                  py == StoredSum(args.dataMap, {OneYearBefore(d)})
              IN  /\ ret.val[i].units = args.dataMap[d].v
                  /\ ret.val[i].prev_year_units = py
                  /\ ret.val[i].yoy_pct = GrowthOrNull(ret.val[i].units, py)

\* what the daily chart does: the prior-year value is the stored value on
\* the same month and day of the prior year, and null when that day does
\* not exist there
DailyPriorYearIsSameMonthDay ==
    (fn = "dailyForChart" /\ args.aggFreq = "daily" /\ ret.done) =>
        /\ OnePointPerKey(ret.val, KeysInRange)
        /\ \A i \in 1..Len(ret.val) :
              LET d == KeyOfLabel(ret.val[i].label)
                  py == StoredSum(args.dataMap,
                          {k \in DOMAIN args.dataMap :
                              /\ SubSeq(k, 5, 10) = SubSeq(d, 5, 10)
                              /\ DigitsValue(SubSeq(k, 1, 4))
                                    = DigitsValue(SubSeq(d, 1, 4)) - 1})
              IN  /\ ret.val[i].units = args.dataMap[d].v
                  /\ ret.val[i].prev_year_units = py
                  /\ ret.val[i].yoy_pct = GrowthOrNull(ret.val[i].units, py)

\* C14: sameDayPrevMonth returns the same day of the previous calendar
\* month when that date exists and null when it does not (29 to 31 March of
\* a common year, 30 and 31 March of a leap year, 31 May, July, October and
\* December); the mom of a daily point is the growth against the value
\* stored on that date, and null when the date does not exist or holds no
\* value, never the growth against a neighbouring date.
C14_DailyMomSameDayPrevMonth ==
    /\ (fn = "sameDayPrevMonth" /\ ret.done) =>
            ret.val = (IF OneMonthBefore(args.iso) = <<>> THEN Null
                       ELSE OneMonthBefore(args.iso)[1])
    /\ (fn = "dailyForChart" /\ args.aggFreq = "daily" /\ ret.done) =>
            \A i \in 1..Len(ret.val) :
                ret.val[i].mom_pct =
                    GrowthOrNull(ret.val[i].units,
                        StoredSum(args.dataMap,
                            {k \in DOMAIN args.dataMap :
                                <<k>> = OneMonthBefore(KeyOfLabel(ret.val[i].label))}))

\* the daily chart has a point for 31 March 2024 whose mom is null while the
\* store holds 29 February and 2 March 2024, and a point for 29 March 2024
\* with a mom
C14_Witness ==
    /\ fn = "dailyForChart" /\ args.aggFreq = "daily" /\ ret.done
    /\ {ISOString(2024, 2, 29), ISOString(2024, 3, 2)} \subseteq DOMAIN args.dataMap
    /\ \E i \in 1..Len(ret.val) :
            /\ ret.val[i].label = DMYString(31, 3, 2024)
            /\ IsNullNum(ret.val[i].mom_pct)
    /\ \E i \in 1..Len(ret.val) :
            /\ ret.val[i].label = DMYString(29, 3, 2024)
            /\ ~IsNullNum(ret.val[i].mom_pct)

\* the day numbers of the keys of keys in the week that starts on monday
DaysOfWeek(keys, monday) ==
    {n \in {DayNumber(k) : k \in keys} : MondayOf(n) = monday}

\* the weekly point p is the bucket of the in-range days of its week, and
\* its comparators are the sums of the values stored 364 and 7 days before
\* these days, null when none is stored
WeekBucket(p, monday, days) ==
    /\ days # {}
    /\ \A n \in days : n - monday \in 0..6
    /\ RInt(p.units) = StoredSum(args.dataMap, {toISOString10(n) : n \in days})
    /\ p.prev_year_units
            = StoredSum(args.dataMap, {toISOString10(n - 364) : n \in days})
    /\ p.yoy_pct = GrowthOrNull(p.units, p.prev_year_units)
    /\ p.mom_pct = GrowthOrNull(p.units,
            StoredSum(args.dataMap, {toISOString10(n - 7) : n \in days}))

\* the weekly points are the buckets of the keys keys
WeekBuckets(points, keys) ==
    /\ {DayNumber(KeyOfLabel(SubSeq(points[i].label, 7, 16))) :
            i \in 1..Len(points)} = {MondayOf(DayNumber(k)) : k \in keys}
    /\ Len(points) = Cardinality({MondayOf(DayNumber(k)) : k \in keys})
    /\ \A i \in 1..Len(points) :
            WeekBucket(points[i],
                DayNumber(KeyOfLabel(SubSeq(points[i].label, 7, 16))),
                DaysOfWeek(keys,
                    DayNumber(KeyOfLabel(SubSeq(points[i].label, 7, 16)))))

\* C15: in the weekly chart every stored date of the range is in the bucket
\* keyed by the Monday on or before it, at an offset 0..6; a bucket's YoY
\* comparator is the sum of the values stored at weekStart - 364 + off and
\* its WoW comparator the sum of those at weekStart - 7 + off, over exactly
\* the offsets observed in the bucket, and the comparator is null, not 0,
\* when none of these dates holds a value.
C15_WeeklyBucketsAndComparators ==
    (fn = "dailyForChart" /\ args.aggFreq = "weekly" /\ ret.done) =>
        WeekBuckets(ret.val, KeysInRange)

\* the weekly chart has the bucket of Monday 10 June 2024 with two or three
\* observed days, a YoY and a WoW comparator, while the store holds a day of
\* the comparison week that is not observed, and the bucket of Monday 3 June
\* 2024 without a YoY comparator
C15_Witness ==
    /\ fn = "dailyForChart" /\ args.aggFreq = "weekly" /\ ret.done
    /\ Len(ret.val) = 2
    /\ ret.val[1].label = WeekOf \o DMYString(3, 6, 2024)
    /\ IsNullNum(ret.val[1].prev_year_units)
    /\ IsNullNum(ret.val[1].yoy_pct)
    /\ ret.val[2].label = WeekOf \o DMYString(10, 6, 2024)
    /\ ISOString(2024, 6, 12) \notin DOMAIN args.dataMap
    /\ ISOString(2023, 6, 14) \in DOMAIN args.dataMap
    /\ ret.val[2].units > MaxAggValue
    /\ ~IsNullNum(ret.val[2].prev_year_units)
    /\ ~IsNullNum(ret.val[2].mom_pct)

\* the sum of the values the store holds on the days first..last, null
\* when it holds none
StoredSumOfDays(store, first, last) ==
    StoredSum(store, {k \in DOMAIN store :
                        first <= DayNumber(k) /\ DayNumber(k) <= last})

\* the rolling point p of the day number d
RollingPointOf(p, d, curr, prev) ==
    /\ p.label = formatDDMMYYYY(toISOString10(d))
    /\ p.units = (IF IsNullNum(curr) THEN 0 ELSE curr[1])
    /\ p.prev_year_units = prev
    /\ p.yoy_pct = (IF IsNullNum(curr) \/ IsNullNum(prev) THEN NullNum
                    ELSE growthPct(curr, prev))
    /\ IsNullNum(p.mom_pct)

\* the rolling points are one for every day first..last, in order
RollingPoints(points, first, last) ==
    /\ Len(points) = last - first + 1
    /\ \A i \in 1..Len(points) :
            RollingPointOf(points[i], first + i - 1,
                StoredSumOfDays(args.dataMap, first + i - 30, first + i - 1),
                StoredSumOfDays(args.dataMap, first + i - 395, first + i - 366))

\* the day numbers of the ends of the selected range
RangeDays(range) == [f |-> DayNumber(range.f), t |-> DayNumber(range.t)]

\* C16: the rolling 30-day chart of a store with data has exactly one point
\* for every calendar date d of [from, to], stored or not, in ascending
\* order (the loop ends); its total is the sum of the values stored on
\* d-29..d (0 when none), its prior-year value the sum over the 30 dates
\* that end at d-365 (null when none), its yoy is null when either window
\* holds no value and the growth of the two sums otherwise, and its mom is
\* null.
C16_Rolling30Points ==
    (fn = "dailyForChart" /\ args.aggFreq = "rolling30" /\ ret.done) =>
        IF args.dataMap = EmptyMap THEN ret.val = <<>>
        ELSE RollingPoints(ret.val,
                RangeDays(chartRange(engineLenient, sortedDailyOf(args.dataMap),
                    args.slicer.fromIso, args.slicer.toIso,
                    args.slicer.rangeDays)).f,
                RangeDays(chartRange(engineLenient, sortedDailyOf(args.dataMap),
                    args.slicer.fromIso, args.slicer.toIso,
                    args.slicer.rangeDays)).t)

\* the rolling chart of 8 to 10 March 2024: the point of 8 March, a date
\* without a value, has a total and a yoy, the point of 10 March has a
\* total of 0 and the store holds the day before its prior-year window
C16_Witness ==
    /\ fn = "dailyForChart" /\ args.aggFreq = "rolling30" /\ ret.done
    /\ Len(ret.val) = 3
    /\ ret.val[1].label = DMYString(8, 3, 2024)
    /\ ret.val[1].units > 0
    /\ ~IsNullNum(ret.val[1].yoy_pct)
    /\ ret.val[3].units = 0
    /\ toISOString10(RollingDay - 395) \in DOMAIN args.dataMap
    /\ IsNullNum(ret.val[3].yoy_pct)

\* the latest key of a store with data
LatestKey(store) == CHOOSE k \in DOMAIN store : \A j \in DOMAIN store : StrLeq(j, k)

\* the keys of the store on the days first..last
KeysOfDays(store, first, last) ==
    {k \in DOMAIN store : first <= DayNumber(k) /\ DayNumber(k) <= last}

\* the mean of the values the store holds on the days first..last, over the
\* days that hold one; null when none does
MeanOfDays(store, first, last) ==
    IF KeysOfDays(store, first, last) = {} THEN NullNum
    ELSE Rat(StoredSum(store, KeysOfDays(store, first, last))[1],
             Cardinality(KeysOfDays(store, first, last)))

\* the growth in percent of curr against prev, null when one of them is
\* null or prev is 0
Growth(curr, prev) ==
    IF IsNullNum(curr) \/ IsNullNum(prev) THEN NullNum
    ELSE IF prev[1] = 0 THEN NullNum
    ELSE RMul(RQuot(RSub(curr, prev), prev), RInt(100))

\* the day number of the date one year before the day number n
DayOneYearBefore(n) == DayNumber(OneYearBefore(toISOString10(n)))

\* the mean of the n days that end on the day last, and its growth against
\* the mean of the window whose ends are one year before the ends of these
AverageIs(store, avg, yoy, n, last) ==
    /\ avg = MeanOfDays(store, last - (n - 1), last)
    /\ yoy = Growth(avg, MeanOfDays(store, DayOneYearBefore(last - (n - 1)),
                                    DayOneYearBefore(last)))

\* C17: for N = 7 and N = 30, avgN is the sum of the values stored on
\* latest-(N-1)..latest divided by the number of those dates that hold a
\* value, and avgN YoY is the growth of that mean against the mean computed
\* in the same way over the window moved back one year, null when that
\* window holds no value or its mean is 0.
C17_AveragesOfLastDays ==
    (fn = "computeKPIs" /\ ret.done /\ args.dataMap # EmptyMap) =>
        /\ AverageIs(args.dataMap, ret.val.avg7, ret.val.avg7YoY, 7,
                     DayNumber(LatestKey(args.dataMap)))
        /\ AverageIs(args.dataMap, ret.val.avg30, ret.val.avg30YoY, 30,
                     DayNumber(LatestKey(args.dataMap)))

\* computeKPIs of a store whose latest date is 3 March 2024: two of the last
\* seven days hold a value, three of the last thirty, and both averages have
\* a growth
C17_Witness ==
    /\ fn = "computeKPIs" /\ ret.done
    /\ DOMAIN args.dataMap = Avg7Keys
    /\ ret.val.avg7 = Rat(MaxAggValue, 2)
    /\ ret.val.avg30 = Rat(2 * MaxAggValue, 3)
    /\ ~IsNullNum(ret.val.avg7YoY)
    /\ ~IsNullNum(ret.val.avg30YoY)
    /\ ret.val.avg7YoY # ret.val.avg30YoY

\* the year in which the fiscal year of the key k starts: the year of k
\* from April on, the year before until March
FiscalYearOf(k) ==
    IF DigitsValue(SubSeq(k, 6, 7)) >= 4 THEN DigitsValue(SubSeq(k, 1, 4))
    ELSE DigitsValue(SubSeq(k, 1, 4)) - 1

\* the fiscal year to date of the store whose latest key is latest: the
\* total from 1 April of the fiscal year fy, and its growth against the
\* total from 1 April of the year before through the date one year before
\* latest
YearToDateIs(store, ytdTotal, ytdYoY, latest, fy) ==
    /\ ytdTotal = StoredSumOfDays(store, MakeDay(fy, 3, 1), DayNumber(latest))
    /\ ytdYoY = Growth(ytdTotal,
                    StoredSumOfDays(store, MakeDay(fy - 1, 3, 1),
                                    DayNumber(OneYearBefore(latest))))

\* the window computeKPIs sums for the comparison starts on 1 April of the
\* year before fy, has a day, ends on the date one year before latest and
\* before the current window starts
ComparisonWindowIs(startIso, endIso, latest, fy) ==
    /\ startIso = ISOString(fy - 1, 4, 1)
    /\ endIso = OneYearBefore(latest)
    /\ StrLeq(startIso, endIso)
    /\ StrLess(endIso, ISOString(fy, 4, 1))

\* C18: the fiscal year starts on 1 April of the year of the latest date
\* when its month is April or later and of the year before otherwise;
\* ytdTotal is the sum of the values stored from that day through the latest
\* date, and its YoY comparator the sum from 1 April one year earlier
\* through the date one year before the latest date: a window that has a
\* day, ends at the one-year-back cutoff and does not reach the current one.
C18_FiscalYearToDate ==
    (fn = "computeKPIs" /\ ret.done /\ args.dataMap # EmptyMap) =>
        /\ YearToDateIs(args.dataMap, ret.val.ytdTotal, ret.val.ytdYoY,
                        LatestKey(args.dataMap),
                        FiscalYearOf(LatestKey(args.dataMap)))
        /\ ComparisonWindowIs(
                aprilFirst(fyStartYearOf(LatestKey(args.dataMap)) - 1),
                isoAddYears(LatestKey(args.dataMap), -1),
                LatestKey(args.dataMap),
                FiscalYearOf(LatestKey(args.dataMap)))

\* computeKPIs of a store whose latest date is 31 March 2024, the last day
\* of the fiscal year 2023, that holds 1 April 2023 and both ends of the
\* fiscal year 2022
C18_Witness ==
    /\ fn = "computeKPIs" /\ ret.done
    /\ DOMAIN args.dataMap = FiscalEndKeys
    /\ \A k \in FiscalEndKeys : args.dataMap[k].v = MaxAggValue
    /\ ret.val.ytdTotal = RInt(3 * MaxAggValue)
    /\ ret.val.ytdYoY = RInt(50)

\* the day number of the first day of the month of the key k
FirstOfMonth(k) ==
    MakeDay(DigitsValue(SubSeq(k, 1, 4)), DigitsValue(SubSeq(k, 6, 7)) - 1, 1)

\* C19: mtdAvg is the mean of the values stored from the first day of the
\* month of the latest date through the latest date, over the days that hold
\* a value; mtdYoY is its growth against the mean from the first day of the
\* same month one year earlier through the same day of the month one year
\* earlier, the last day of that month when the latest date is 29 February.
C19_MonthToDate ==
    (fn = "computeKPIs" /\ ret.done /\ args.dataMap # EmptyMap) =>
        /\ ret.val.mtdAvg =
                MeanOfDays(args.dataMap, FirstOfMonth(LatestKey(args.dataMap)),
                           DayNumber(LatestKey(args.dataMap)))
        /\ ret.val.mtdYoY =
                Growth(ret.val.mtdAvg,
                    MeanOfDays(args.dataMap,
                        FirstOfMonth(OneYearBefore(LatestKey(args.dataMap))),
                        DayNumber(OneYearBefore(LatestKey(args.dataMap)))))

\* computeKPIs of a store whose latest date is 29 February 2024, with a
\* value on 1 February 2024 and on 31 January of both years, and in
\* February 2023 a value on the 28th only
C19_Witness ==
    /\ fn = "computeKPIs" /\ ret.done
    /\ DOMAIN args.dataMap = FebruaryKeys \ {ISOString(2023, 2, 1)}
    /\ args.dataMap[ISOString(2024, 2, 29)].v = MaxAggValue
    /\ args.dataMap[ISOString(2024, 2, 1)].v = 0
    /\ args.dataMap[ISOString(2024, 1, 31)].v = MaxAggValue
    /\ ret.val.mtdAvg = Rat(MaxAggValue, 2)
    /\ ret.val.mtdYoY = RInt(-50)

-----------------------------------------------------------------------------
(* The key figures of the component's store                                *)

\* useMemo kpis of the component
kpis == computeKPIs(engineLenient, sortedDailyOf(dataMap))

\* the record r holds the figures of the store with data whose latest key
\* is latest, on the day number last: each statistic of the current period
\* has a value, and each YoY field is the growth of its statistic against
\* the statistic of the year before, null exactly when no value is stored
\* in the basis of that statistic or the statistic is 0
KeyFiguresAre(store, r, latest, last) ==
    /\ r.latest = <<[date |-> latest, value |-> store[latest]]>>
    /\ ~IsNullNum(r.avg7) /\ ~IsNullNum(r.avg30)
    /\ ~IsNullNum(r.ytdTotal) /\ ~IsNullNum(r.mtdAvg)
    /\ r.latestYoY = Growth(RInt(store[latest].v),
                            StoredSum(store, {OneYearBefore(latest)}))
    /\ r.avg7YoY = Growth(r.avg7,
            MeanOfDays(store, DayOneYearBefore(last - 6), DayOneYearBefore(last)))
    /\ r.avg30YoY = Growth(r.avg30,
            MeanOfDays(store, DayOneYearBefore(last - 29), DayOneYearBefore(last)))
    /\ r.ytdYoY = Growth(r.ytdTotal,
            StoredSumOfDays(store, MakeDay(FiscalYearOf(latest) - 1, 3, 1),
                            DayOneYearBefore(last)))
    /\ r.mtdYoY = Growth(r.mtdAvg,
            MeanOfDays(store, FirstOfMonth(OneYearBefore(latest)),
                       DayOneYearBefore(last)))

\* the result r of computeKPIs for the store: no failure, nulls for an
\* empty store, the figures of the store otherwise
NeverFails(store, r) ==
    /\ ~HasThrown(r)
    /\ store = EmptyMap => r = NoKpis
    /\ store # EmptyMap =>
            KeyFiguresAre(store, r, LatestKey(store), DayNumber(LatestKey(store)))

\* C20: computeKPIs never fails: for the empty store every field is null,
\* and for a store with data each YoY field is null exactly when its
\* prior-year basis holds no stored value or the prior-year statistic is 0
\* and the growth of the two statistics otherwise, the fields one
\* independent of the other.
C20_ComputeKPIsNeverFails == NeverFails(dataMap, kpis)

\* what holds for the stores of SpecKpi, whose keys are dates written
\* YYYY-MM-DD
KeyFiguresOfDatedStores ==
    (fn = "computeKPIs" /\ ret.done) => NeverFails(args.dataMap, ret.val)

(***************************************************************************)
(* Specification SpecRange: dailyForChart at every frequency, with both    *)
(* dates of the slicer chosen, in either order                             *)
(***************************************************************************)

\* Thursday 29 February, Friday 1 and Monday 4 March 2024
RangeStoreKeys ==
    { ISOString(2024, 2, 29), ISOString(2024, 3, 1), ISOString(2024, 3, 4) }

\* the stored days, the day before the first and the day after the last
RangeDates ==
    RangeStoreKeys \cup {ISOString(2024, 2, 28), ISOString(2024, 3, 5)}

Frequencies == {"daily", "rolling30", "weekly", "monthly"}

InitRange ==
    /\ engineLenient \in BOOLEAN
    /\ ComponentIdle
    /\ \E m \in MapsOver(RangeStoreKeys, AggValues), a \in RangeDates,
          b \in RangeDates, freq \in Frequencies :
            AggCall("dailyForChart", m, Slicer(a, b, 120), freq)
    /\ ret = NotCalled

NextRange == ApplyDailyForChart

SpecRange == InitRange /\ [][NextRange]_vars

\* the chart of the call in args with the two dates of the slicer exchanged
ChartOfExchangedDates ==
    dailyForChart(engineLenient, sortedDailyOf(args.dataMap),
                  args.slicer.toIso, args.slicer.fromIso,
                  args.slicer.rangeDays, args.aggFreq)

\* the range dailyForChart works on for the call in args
EffectiveRange ==
    chartRange(engineLenient, sortedDailyOf(args.dataMap),
               args.slicer.fromIso, args.slicer.toIso, args.slicer.rangeDays)

\* C21: for every store, frequency and pair of dates a and b, the chart for
\* from = a and to = b is the chart for from = b and to = a, and the range
\* the chart is computed on has its first date at or before its last date
C21_RangeSymmetric ==
    (fn = "dailyForChart" /\ ret.done /\ args.slicer.fromIso # <<>>
        /\ args.slicer.toIso # <<>>)
    => /\ ret.val = ChartOfExchangedDates
       /\ args.dataMap # EmptyMap =>
             StrLeq(EffectiveRange.f, EffectiveRange.t)

\* a chart with points was computed for a from date after the to date
C21_Witness ==
    /\ fn = "dailyForChart" /\ ret.done
    /\ args.slicer.fromIso # <<>> /\ args.slicer.toIso # <<>>
    /\ StrLess(args.slicer.toIso, args.slicer.fromIso)
    /\ Len(ret.val) >= 2

-----------------------------------------------------------------------------
(* The default CSV load, the cleanup of its effect and the persisted store *)

\* the map of the rows: each date with the value of its last row
LastRowWins(rows) ==
    [k \in {rows[j].date : j \in 1..Len(rows)} |->
        rows[MaxOf({j \in 1..Len(rows) : rows[j].date = k})].value]

\* the rows csvParse reads in the text fetched by the i-th load
RowsOfLoad(i, text) == csvParseOf[engineLenient][loads[i].type][text].parsed

\* C22: when a default CSV load completes without being cancelled and has
\* at least one valid row, the store becomes exactly the map of the parsed
\* rows, the last row of a date winning, whatever the store held before
C22_DefaultLoadReplacesStore ==
    [][\A i \in 1..Len(loads), text \in CsvTexts :
          (loadDefaultCSVDone(i, text) /\ ~loads[i].cancelled
              /\ RowsOfLoad(i, text) # <<>>)
          => dataMap' = LastRowWins(RowsOfLoad(i, text))]_vars

\* the first load has completed, not cancelled, with a valid row of 14 June
\* 2024 and a rejected row, after the entry form saved a value: the store
\* holds the row of the file alone
C22_Witness ==
    /\ fn = "component"
    /\ loads[1].done /\ ~loads[1].cancelled
    /\ fetchStatus = <<"Loaded with issues">>
    /\ msg = <<"Saved">>
    /\ dataMap = (ISOString(2024, 6, 14) :> JNum(2))

\* the cleanup of the effect run that started the i-th load has run: the
\* effect has run again since, or the component has unmounted
CleanupHasRun(i) == i < Len(loads) \/ ~mounted

\* C23: once the cleanup of the default-load effect has run, the load it
\* started changes neither the store nor the error list nor the status
\* text, whatever its fetch resolves to and however late; a load that
\* writes the store is the one started for the current props
C23_CancelledLoadWritesNothing ==
    [][\A i \in 1..Len(loads), text \in CsvTexts \cup {Unreadable} :
          loadDefaultCSVDone(i, text) =>
             /\ CleanupHasRun(i) => UNCHANGED <<dataMap, errors, fetchStatus>>
             /\ dataMap' # dataMap =>
                    (mounted /\ i = Len(loads) /\ loads[i].type = type)]_vars

\* the load of the first props has settled after the type changed, the
\* load of the new props is still in flight, and no status or error was
\* written
C23_Witness ==
    /\ fn = "component"
    /\ type = "demand"
    /\ Len(loads) = 2
    /\ loads[1].done /\ loads[1].cancelled
    /\ ~loads[2].done
    /\ fetchStatus = Null /\ errors = <<>>

-----------------------------------------------------------------------------
(* Rejected inputs                                                         *)

\* the date text is no date, or the value text is no finite number >= 0
RejectedEntry(dateText, valueText) ==
    \/ parseInputDateOf[engineLenient][dateText] = Null
    \/ ~NumberIsFinite(StringToNumber(RemoveCommas(valueText)))
    \/ ~AtLeastZero(StringToNumber(RemoveCommas(valueText)))

\* the text is of a file that cannot be read, or holds no valid row
NoValidRow(t, text) ==
    text = Unreadable \/ csvParseOf[engineLenient][t][text].parsed = <<>>

\* the answer is a failure, or its date or its total is not valid
RejectedResponse(r) ==
    \/ ~r.ok
    \/ parseInputDateOf[engineLenient][r.date] = Null
    \/ ~NumberIsFinite(ToNumber(r.total_mu))
    \/ ~AtLeastZero(ToNumber(r.total_mu))

StoreKeptErrorShown == dataMap' = dataMap /\ errors' # <<>>

\* upsertOne, importCSV and the default CSV load on a rejected input
RejectedInputStep ==
    /\ \A d \in DateTexts, v \in ValueTexts :
          (upsertOne(d, v) /\ RejectedEntry(d, v)) => StoreKeptErrorShown
    /\ \A i \in 1..Len(pending.imports), text \in CsvTexts \cup {Unreadable} :
          (importCSVDone(i, text) /\ mounted
              /\ NoValidRow(pending.imports[i], text))
          => /\ StoreKeptErrorShown
             /\ text # Unreadable =>
                    errors' # <<Message("Could not read CSV.")>>
    /\ \A i \in 1..Len(loads), text \in CsvTexts \cup {Unreadable} :
          (loadDefaultCSVDone(i, text) /\ ~loads[i].cancelled
              /\ NoValidRow(loads[i].type, text))
          => StoreKeptErrorShown

\* C24: a rejected input leaves the store unchanged and the error list
\* non-empty: upsertOne with an invalid date or a non-finite or negative
\* value, importCSV of a text with no valid row or of an unreadable file, a
\* failed auto-fetch, and a default CSV load that fails or has no valid row;
\* an import with no valid row is reported with another message than an
\* unreadable file
C24_RejectedInputKeepsStoreShowsError ==
    [][/\ RejectedInputStep
       /\ \A r \in Responses :
             (fetchLatestFromCEADone(r) /\ mounted /\ RejectedResponse(r))
             => StoreKeptErrorShown]_vars

\* the same with the failed auto-fetch reported in the status text; it
\* holds while at most one importCSV call is in flight (MaxPendingImports)
RejectedInputIsReported ==
    [][/\ RejectedInputStep
       /\ \A r \in Responses :
             (fetchLatestFromCEADone(r) /\ mounted /\ RejectedResponse(r))
             => /\ dataMap' = dataMap
                /\ fetchStatus' = <<"Auto-fetch failed">>]_vars

-----------------------------------------------------------------------------
(* The latest record and the windows of the current period                 *)

\* the snapshot r of the store with data: its latest is the record of the
\* greatest key, and the four statistics of the current period have values
LatestAndWindows(store, r) ==
    /\ ~HasThrown(r)
    /\ r.latest = <<[date |-> LatestKey(store), value |-> store[LatestKey(store)]]>>
    /\ ~IsNullNum(r.avg7) /\ ~IsNullNum(r.avg30)
    /\ ~IsNullNum(r.ytdTotal) /\ ~IsNullNum(r.mtdAvg)

\* C25: for every store with data, latest of the KPI snapshot is the record
\* with the greatest date key, and avg7, avg30, ytdTotal and mtdAvg are not
\* null, each of their windows holding the latest date
C25_LatestAndCurrentWindows ==
    (fn = "component" /\ dataMap # EmptyMap) => LatestAndWindows(dataMap, kpis)

\* what holds for the stores of SpecKpi, whose keys are dates written
\* YYYY-MM-DD
LatestAndWindowsOfDatedStores ==
    (fn = "computeKPIs" /\ ret.done /\ args.dataMap # EmptyMap)
        => LatestAndWindows(args.dataMap, ret.val)

-----------------------------------------------------------------------------
(* The length of the window of the year before                             *)

\* the number of calendar days from startIso to endIso, both counted
DaysSpanned(w) == DayNumber(w.endIso) - DayNumber(w.startIso) + 1

\* C26: for every latest date and N of 7 and 30, the window of the year
\* before, its two ends moved by isoAddYears(-1) one independent of the
\* other, spans exactly N calendar days as the current window does, also
\* when the current or the moved window holds 28 or 29 February
C26_PrevYearWindowSpansNDays ==
    (fn = "prevYearWindow" /\ ret.done) => DaysSpanned(ret.val) = args.nDays

\* 29 February lies from the day number first to the day number last
HoldsLeapDay(first, last) ==
    \E n \in first..last : getUTCMonth(n) = 1 /\ getUTCDate(n) = 29

\* the window of the year before is one day shorter when the current
\* window holds a 29 February after its first day, one day longer when the
\* window of the year before holds one, and N days long otherwise
PrevYearWindowLength ==
    (fn = "prevYearWindow" /\ ret.done) =>
        LET last == DayNumber(args.endIso)
            first == last - (args.nDays - 1)
        IN  DaysSpanned(ret.val) =
                IF HoldsLeapDay(first + 1, last) THEN args.nDays - 1
                ELSE IF HoldsLeapDay(DayNumber(ret.val.startIso),
                                     DayNumber(ret.val.endIso))
                THEN args.nDays + 1
                ELSE args.nDays

-----------------------------------------------------------------------------
(* Conservation in the weekly and the monthly chart                        *)

\* the key of the bucket of a chart point: the Monday of a weekly point,
\* the month of a monthly point
BucketKey(p) ==
    IF args.aggFreq = "weekly" THEN KeyOfLabel(SubSeq(p.label, 7, 16))
    ELSE p.label

\* the key of the bucket a stored date belongs to
BucketOf(k) ==
    IF args.aggFreq = "weekly" THEN toISOString10(MondayOf(DayNumber(k)))
    ELSE MonthOfKey(k)

SumOfUnits(points) ==
    SumOver([i \in 1..Len(points) |-> points[i].units], 1..Len(points))

\* every key of keys is in exactly one bucket of points, the totals of the
\* buckets add up to the values stored on keys, the buckets are in strictly
\* ascending order of their keys, and every bucket holds a key
Conserved(points, keys) ==
    /\ \A k \in keys :
          Cardinality({i \in 1..Len(points) :
                          BucketKey(points[i]) = BucketOf(k)}) = 1
    /\ keys = {} => points = <<>>
    /\ keys # {} => RInt(SumOfUnits(points)) = StoredSum(args.dataMap, keys)
    /\ \A i \in 1..(Len(points) - 1) :
          StrLess(BucketKey(points[i]), BucketKey(points[i + 1]))
    /\ \A i \in 1..Len(points) :
          \E k \in keys : BucketOf(k) = BucketKey(points[i])

\* C27: in the weekly and in the monthly chart every stored date of the
\* range contributes to exactly one bucket, so the totals of the buckets
\* add up to the sum of the values stored in the range, and the buckets
\* come in strictly ascending key order, none of them empty
C27_BucketsConserveTheSum ==
    (fn = "dailyForChart" /\ args.aggFreq \in {"weekly", "monthly"} /\ ret.done)
        => Conserved(ret.val, KeysInRange)

\* a monthly chart of at least two buckets, one of them of several days,
\* for a range that leaves a stored date out
C27_Witness ==
    /\ fn = "dailyForChart" /\ args.aggFreq = "monthly" /\ ret.done
    /\ Len(ret.val) >= 2
    /\ Cardinality(KeysInRange) > Len(ret.val)
    /\ Cardinality(KeysInRange) < Cardinality(DOMAIN args.dataMap)

-----------------------------------------------------------------------------
(* The monthly chart against toMonthly                                     *)

\* the rows of toMonthly for the store of the call in args
MonthlyRows == toMonthly(sortedDailyOf(args.dataMap))

\* the monthly chart was computed for a range that covers every stored date
MonthlyChartOfWholeStore ==
    /\ fn = "dailyForChart" /\ args.aggFreq = "monthly" /\ ret.done
    /\ KeysInRange = DOMAIN args.dataMap

SameMonthsAndTotals(points, rows) ==
    /\ Len(points) = Len(rows)
    /\ \A i \in 1..Len(points) :
          /\ points[i].label = rows[i].month
          /\ points[i].units = rows[i].total_gwh

SameGrowth(points, rows) ==
    \A i \in 1..Len(points) :
        /\ points[i].mom_pct = rows[i].mom_pct
        /\ points[i].yoy_pct = rows[i].yoy_pct

\* C28: when the selected range covers every stored date, the monthly
\* chart and toMonthly give the same months with the same totals and the
\* same MoM and YoY growth, for every store, also when the months have gaps
\* between their observed days
C28_MonthlyComputationsAgree ==
    MonthlyChartOfWholeStore =>
        /\ SameMonthsAndTotals(ret.val, MonthlyRows)
        /\ SameGrowth(ret.val, MonthlyRows)

\* the months and the totals are the same
MonthlyTotalsAgree ==
    MonthlyChartOfWholeStore => SameMonthsAndTotals(ret.val, MonthlyRows)

-----------------------------------------------------------------------------
(* The persisted store of each type                                        *)

\* the item under the key of the current type is the current store
StorageMirrorsStore ==
    (fn = "component" /\ mounted) => storage[type] = persisted(dataMap)

\* a record of the item written in this step under the key of the type t
\* that the item did not hold before
WrittenUnder(t, k) ==
    /\ k \in DOMAIN storage'[t].obj
    /\ k \notin DOMAIN storage[t].obj \/ storage'[t].obj[k] # storage[t].obj[k]

\* C29: the item persisted under tusk_india_<type>_v1 mirrors the current
\* store and holds only records restored, loaded, imported, fetched or
\* entered while the type prop was <type>: a change of the type prop of the
\* mounted component writes no record of the previous type under the key
\* of the new type
C29_StoragePerType ==
    [][/\ mounted' => storage'[type'] = persisted(dataMap')
       /\ type' # type =>
             \A k \in DOMAIN dataMap : ~WrittenUnder(type', k)]_vars

-----------------------------------------------------------------------------
(* The row numbers of csvParse's errors                                    *)

\* the line i is a row: not blank, at least two columns
IsRowLine(lines, i) == lines[i].kind \notin {"blank", "one column"}

\* the line i is a data row that csvParse rejects: a row that is not valid
\* and is not the header in the place of the first row
IsRejectedLine(lines, i) ==
    /\ IsRowLine(lines, i)
    /\ lines[i].kind # "valid"
    /\ ~(lines[i].kind = "header" /\ \A m \in 1..(i - 1) : ~IsRowLine(lines, m))

\* the position in the text of the j-th rejected row
RejectedPosition(lines, j) ==
    CHOOSE i \in 1..Len(lines) :
        /\ IsRejectedLine(lines, i)
        /\ Cardinality({m \in 1..i : IsRejectedLine(lines, m)}) = j

\* the position of the line i among the data rows
DataRowIndex(lines, i) ==
    Cardinality({m \in 1..i : IsRowLine(lines, m)})
        - (IF \E m \in 1..i : lines[m].kind = "header"
                /\ \A n \in 1..(m - 1) : ~IsRowLine(lines, n)
           THEN 1 ELSE 0)

\* C30: the row number of each error of csvParse is the position, counted
\* from 1, of the rejected row in the input text, every line of the input
\* counted: a header line, blank lines and lines of fewer than two columns
C30_RowNumberIsLinePosition ==
    (fn = "csvParse" /\ ret.done) =>
        \A j \in 1..Len(ret.val.errors) :
            ret.val.errors[j].row = RejectedPosition(args.lines, j)

\* the row number is the position among the data rows: the lines that are
\* not blank and have two columns, without the header
RowNumberIsDataRowIndex ==
    (fn = "csvParse" /\ ret.done) =>
        \A j \in 1..Len(ret.val.errors) :
            ret.val.errors[j].row
                = DataRowIndex(args.lines, RejectedPosition(args.lines, j))

====
